---- MODULE Spec2Model ----
(***************************************************************************)
(* LinkBot: ban propagation between Discord servers ("nodes").             *)
(*                                                                         *)
(* The state is the SQLite database (tables servers, bans, ban_actions),  *)
(* the in-memory rate limiter of the Bans cog, the set of guilds the bot   *)
(* is in, and the alert messages (views with buttons) that were delivered  *)
(* to peers.  Each action is one event handler / button callback; every    *)
(* database transaction is atomic (one aiosqlite connection, one commit).  *)
(***************************************************************************)
EXTENDS Integers, Sequences, FiniteSets, TLC

\* ------------------------------------------------------------------------
\* Input domains and bounds
\* ------------------------------------------------------------------------
Nodes == {1, 2, 3}          \* server ids
Users == {1, 2}             \* ids of banned / flagged users
OWNER == "owner"            \* review.py:30, systems.py:22  (id 780865480038678528)
ADMIN == "admin"            \* a guild administrator who is not the bot owner
Actors == {OWNER, ADMIN}

MaxBans == 1                \* Spec: rows ever inserted into table bans
MaxActions == 2             \* rows ever inserted into table ban_actions
MaxHandlers == 2            \* button callbacks suspended between commit and finish
MaxConfig == 1              \* configuration and membership operations
MaxIngestBans == 6          \* SpecIngest: rows ever inserted into table bans
MaxTicks == 2               \* SpecIngest: clock advances
MaxFanOutBans == 2          \* SpecFanOut: rows ever inserted into table bans
MaxInflight == 1            \* SpecRace: on_member_ban coroutines in flight
MaxOther == 1               \* SpecIngest: timestamps the rate limiter holds for server 2
MaxJoins == 2               \* SpecJoin: members that join
MaxPanels == 2              \* AltSettings panels ever opened
MaxEdits == 3               \* SpecSettings: clicks handled by AltSettings panels
MaxReviewJoins == 2         \* SpecReview: members that join
MaxAltActions == 2          \* SpecReview: AltDetectionView clicks that pass the checks
MaxReviewPanels == 1        \* SpecReview: AltSettings panels opened
MaxWindowJoins == 3         \* SpecWindow: members that join
MaxReviewEdits == 1         \* SpecReview: clicks handled by the AltSettings panel
MaxJoinBans == 2            \* SpecBanJoin: rows ever inserted into table bans
MaxJoinAlerts == 1          \* SpecBanJoin: join alerts sent
MaxDedupInflight == 2       \* SpecDedupRace: on_member_ban coroutines in flight
MaxDedupReports == 2        \* SpecDedupRace: reports that pass the rate limiter
MaxGateBans == 2            \* SpecGateRace: rows ever inserted into table bans
MaxGateInflight == 1        \* SpecGateRace: on_member_ban coroutines in flight
MaxEchoBans == 1            \* SpecEcho: bans reported by moderators
MaxSetupBans == 1           \* SpecSetup: rows ever inserted into table bans
MaxSetupOps == 2            \* SpecSetup: configuration and membership operations

TickSteps == {120, 180, 181}  \* seconds by which the clock advances

\* ------------------------------------------------------------------------
\* Program constants
\* ------------------------------------------------------------------------
max_bans == 5               \* BanRateLimit.max_bans
time_window == 180          \* BanRateLimit.time_window (seconds)
DedupWindow == 300          \* on_member_ban: time_threshold = current_time - 300
AutoBanIntegrity == 50      \* send_ban_alerts: auto_ban and integrity >= 50
MaxIntegrity == 100         \* MIN(integrity + 1, 100)
MinIntegrity == 0           \* MAX(integrity - 1, 0)
DefaultIntegrity == 100     \* servers.integrity INTEGER DEFAULT 100
lockState == 1              \* preChecks: 1 = maintenance mode
NewAccountDays == 7         \* on_member_join: account_age < 7
QuickJoinWindow == 120      \* check_quick_join: current_time - timestamp < 120
JoinRetention == 600        \* check_expired_joins: current_time - timestamp < 600
DefaultThreshold == 100     \* settings.get("threshold", 100)
SecondsPerDay == 86400      \* timedelta.days
BotUser == 0                \* self.bot.user.id

VARIABLES
    now,          \* wall clock (time.time(), datetime.now().timestamp())
    ticks,        \* number of clock advances so far
    guilds,       \* bot.guilds: the servers the bot is a member of
    servers,      \* table servers: server_id -> row
    bans,         \* table bans: id -> row
    nextBanId,    \* AUTOINCREMENT counter of table bans
    ban_actions,  \* table ban_actions, in insertion order
    server_bans,  \* BanRateLimit.server_bans: server_id -> list of timestamps
    views,        \* BanAlertView messages delivered to alert channels
    reviewViews,  \* ReviewView messages shown to the owner (flag ids)
    handlers,     \* button callbacks that committed and have not yet finished
    notified,     \* log of alert_channel.send attempts
    enforced,     \* log of guild.ban attempts made by the bot
    cfgOps,       \* number of configuration / membership operations so far
    ingests,      \* on_member_ban coroutines suspended at an await
    alt_settings,   \* table alt_settings: server_id -> settings (JSON column)
    alt_dismissed,  \* table alt_dismissed: (server_id, user_id) pairs
    alt_actions,    \* table alt_actions, in insertion order
    recent_joins,   \* Alts.recent_joins: server_id -> list of (user_id, timestamp)
    alt_alerts,     \* messages the alt detection sent to alert channels, in order
    alt_enforced,   \* log of member.kick / guild.ban attempts of the alt detection
    lastJoin,       \* the last on_member_join: its member and what it computed
    panels,         \* AltSettings views that were opened, each with its own settings dict
    alt_clicks,     \* AltDetectionView callbacks that passed the checks and have not finished
    alt_disabled,   \* alerts (indices of alt_alerts) whose message shows disabled buttons
    lastOp        \* the handler that ran last, with its inputs

vars == <<now, ticks, guilds, servers, bans, nextBanId, ban_actions, server_bans,
          views, reviewViews, handlers, notified, enforced, cfgOps, ingests,
          alt_settings, alt_dismissed, alt_actions, recent_joins, alt_alerts,
          alt_enforced, lastJoin, panels, alt_clicks, alt_disabled, lastOp>>

\* The state of cogs/alts.py.
altVars == <<alt_settings, alt_dismissed, alt_actions, recent_joins, alt_alerts,
             alt_enforced, lastJoin, panels, alt_clicks, alt_disabled>>

\* ------------------------------------------------------------------------
\* Rows and table helpers
\* ------------------------------------------------------------------------
\* A row of table servers.  The JSON column preferences is kept as its keys
\* auto_ban, alert_channel (alert_channel_id is set and resolves to a channel)
\* and blocked_servers.
ServerRow(integrity, blacklisted, auto_ban, alert_channel, blocked) ==
    [integrity |-> integrity, blacklisted |-> blacklisted, auto_ban |-> auto_ban,
     alert_channel |-> alert_channel, blocked_servers |-> blocked]

\* INSERT INTO servers (server_id) VALUES (?): every column at its default.
DefaultRow == ServerRow(DefaultIntegrity, FALSE, FALSE, FALSE, {})

\* lastOp: the handler, the guild it ran in, the origin server of the ban it
\* is about, the user and ban id, its further input (audit result, actor or
\* button) and the origin's integrity before it ran (-1: no row).
Op(op, guild, origin, user, ban, arg, pre) ==
    [op |-> op, guild |-> guild, origin |-> origin, user |-> user, ban |-> ban,
     arg |-> arg, pre |-> pre]

\* UPDATE bans SET status = ? WHERE id = ?   (no row: nothing happens)
UpdateBanStatus(B, id, status) ==
    [b \in DOMAIN B |-> IF b = id THEN [B[b] EXCEPT !.status = status] ELSE B[b]]

\* The increment without its cap.
IncreaseIntegrity_NoCap(i) == i + 1

\* SET integrity = MIN(integrity + 1, 100)
IncreaseIntegrity(i) == IF i + 1 < MaxIntegrity THEN i + 1 ELSE MaxIntegrity

\* The decrement without its floor.
DecreaseIntegrity_NoFloor(i) == i - 1

\* SET integrity = MAX(integrity - 1, 0)
DecreaseIntegrity(i) == IF i - 1 > MinIntegrity THEN i - 1 ELSE MinIntegrity

\* UPDATE servers SET integrity = MIN(integrity + 1, 100) WHERE server_id = ?
UpdateIntegrityUp(S, sid) ==
    [n \in DOMAIN S |->
        IF n = sid THEN [S[n] EXCEPT !.integrity = IncreaseIntegrity(@)] ELSE S[n]]

\* UPDATE servers SET integrity = MAX(integrity - 1, 0) WHERE server_id = ?
UpdateIntegrityDown(S, sid) ==
    [n \in DOMAIN S |->
        IF n = sid THEN [S[n] EXCEPT !.integrity = DecreaseIntegrity(@)] ELSE S[n]]

\* SELECT integrity FROM servers WHERE server_id = ?   (-1: no row)
IntegrityOf(S, sid) == IF sid \in DOMAIN S THEN S[sid].integrity ELSE -1

\* preChecks returns True (command blocked) in maintenance mode unless the
\* caller is on the whitelist.
preChecks(actor) == lockState = 1 /\ actor # OWNER

\* interaction.user.guild_permissions.administrator
administrator(actor) == actor \in {OWNER, ADMIN}

\* ------------------------------------------------------------------------
\* BanRateLimit
\* ------------------------------------------------------------------------
\* The list comprehension of can_send_alert: keep the recent timestamps.
\* The purge keeping a timestamp that is exactly time_window old.
RECURSIVE Recent_Inclusive(_, _)
Recent_Inclusive(ts, t) ==
    IF ts = <<>> THEN <<>>
    ELSE IF t - Head(ts) <= time_window
         THEN <<Head(ts)>> \o Recent_Inclusive(Tail(ts), t)
         ELSE Recent_Inclusive(Tail(ts), t)

RECURSIVE Recent(_, _)
Recent(ts, t) ==
    IF ts = <<>> THEN <<>>
    ELSE IF t - Head(ts) < time_window
         THEN <<Head(ts)>> \o Recent(Tail(ts), t)
         ELSE Recent(Tail(ts), t)

\* A limiter that admits every ban.
can_send_alert_Unlimited(sb, server_id, t) ==
    [ok |-> TRUE,
     server_bans |-> [n \in DOMAIN sb \cup {server_id} |->
                          IF n = server_id
                          THEN Append(IF n \in DOMAIN sb THEN sb[n] ELSE <<>>, t)
                          ELSE sb[n]]]

\* can_send_alert(server_id) at time t on the dict sb: the answer and the dict
\* it leaves behind.
can_send_alert(sb, server_id, t) ==
    LET old  == IF server_id \in DOMAIN sb THEN sb[server_id] ELSE <<>>
        kept == Recent(old, t)
        ok   == Len(kept) < max_bans
        new  == IF ok THEN Append(kept, t) ELSE kept
    IN  [ok |-> ok,
         server_bans |-> [n \in DOMAIN sb \cup {server_id} |->
                              IF n = server_id THEN new ELSE sb[n]]]

\* ------------------------------------------------------------------------
\* Fan-out of one ban (Bans.send_ban_alerts / Bans.send_ban_alert)
\* ------------------------------------------------------------------------
\* The loop works on st = [servers, bans, views, notified, enforced].

\* send_ban_alert: one channel.send of an alert with Accept/Dismiss buttons.
\* A failed send is caught and logged; the view then reaches nobody.
send_ban_alert(st, guild, ban_id, user_id, origin_server_id, sendOk) ==
    [st EXCEPT
        !.notified = @ \cup {[guild |-> guild, ban_id |-> ban_id,
                              kind |-> "alert", ok |-> sendOk]},
        !.views = IF sendOk
                  THEN @ \cup {[guild |-> guild, ban_id |-> ban_id,
                                user_id |-> user_id,
                                origin_server_id |-> origin_server_id,
                                disabled |-> FALSE]}
                  ELSE @]

\* The skips without the blocked_servers test.
SkipGuild_NoBlocklist(S, guild, origin_server_id) ==
    IF guild = origin_server_id THEN TRUE
    ELSE IF guild \notin DOMAIN S THEN TRUE
    ELSE IF S[guild].blacklisted THEN TRUE
    ELSE ~S[guild].alert_channel

\* The `continue`s at the head of the for-loop of send_ban_alerts.
SkipGuild(S, guild, origin_server_id) ==
    IF guild = origin_server_id THEN TRUE
    ELSE IF guild \notin DOMAIN S THEN TRUE
    ELSE IF S[guild].blacklisted THEN TRUE
    ELSE IF origin_server_id \in S[guild].blocked_servers THEN TRUE
    ELSE ~S[guild].alert_channel

\* A successful auto-ban that leaves the ban's status alone.
auto_ban_succeeded_NoStatus(st, guild, ban_id, user_id, origin_server_id, sendOk) ==
    [st EXCEPT
        !.enforced = @ \cup {[guild |-> guild, user_id |-> user_id,
                              ban_id |-> ban_id, ok |-> TRUE, by |-> "auto"]},
        !.servers = UpdateIntegrityUp(@, origin_server_id),
        !.notified = @ \cup {[guild |-> guild, ban_id |-> ban_id,
                              kind |-> "autoban", ok |-> sendOk]}]

\* send_ban_alerts after guild.ban returned: the ban becomes Accepted, the
\* origin's integrity goes up, and the auto-ban notice is sent (a failed send
\* is caught and logged).
auto_ban_succeeded(st, guild, ban_id, user_id, origin_server_id, sendOk) ==
    [st EXCEPT
        !.enforced = @ \cup {[guild |-> guild, user_id |-> user_id,
                              ban_id |-> ban_id, ok |-> TRUE, by |-> "auto"]},
        !.bans = UpdateBanStatus(@, ban_id, "Accepted"),
        !.servers = UpdateIntegrityUp(@, origin_server_id),
        !.notified = @ \cup {[guild |-> guild, ban_id |-> ban_id,
                              kind |-> "autoban", ok |-> sendOk]}]

\* A failed auto-ban that is swallowed.
auto_ban_failed_Swallowed(st, guild, ban_id, user_id, origin_server_id, sendOk) ==
    [st EXCEPT
        !.enforced = @ \cup {[guild |-> guild, user_id |-> user_id,
                              ban_id |-> ban_id, ok |-> FALSE, by |-> "auto"]}]

\* send_ban_alerts after guild.ban raised Forbidden or HTTPException: fall
\* back to the alert with buttons.
auto_ban_failed(st, guild, ban_id, user_id, origin_server_id, sendOk) ==
    send_ban_alert(
        [st EXCEPT
            !.enforced = @ \cup {[guild |-> guild, user_id |-> user_id,
                                  ban_id |-> ban_id, ok |-> FALSE, by |-> "auto"]}],
        guild, ban_id, user_id, origin_server_id, sendOk)

\* The auto-ban test with a strict comparison.
ShouldAutoBan_Above(auto_ban, integrity) == auto_ban /\ integrity > AutoBanIntegrity

\* if auto_ban and integrity >= 50
ShouldAutoBan(auto_ban, integrity) == auto_ban /\ integrity >= AutoBanIntegrity

\* The body of the for-loop of send_ban_alerts for one guild.  integrity is
\* the origin's integrity as read by on_member_ban before the loop.
send_ban_alerts_guild(st, guild, ban_id, user_id, origin_server_id, integrity, banOk, sendOk) ==
    IF SkipGuild(st.servers, guild, origin_server_id) THEN st
    ELSE IF ShouldAutoBan(st.servers[guild].auto_ban, integrity)
    THEN IF banOk
         THEN auto_ban_succeeded(st, guild, ban_id, user_id, origin_server_id, sendOk)
         ELSE auto_ban_failed(st, guild, ban_id, user_id, origin_server_id, sendOk)
    ELSE send_ban_alert(st, guild, ban_id, user_id, origin_server_id, sendOk)

\* bot.guilds as a list (ascending ids).
RECURSIVE GuildList(_)
GuildList(G) ==
    IF G = {} THEN <<>>
    ELSE LET m == CHOOSE x \in G : \A y \in G : x <= y
         IN  <<m>> \o GuildList(G \ {m})

\* A loop that ends at the first guild whose channel.send fails.
RECURSIVE send_ban_alerts_Aborting(_, _, _, _, _, _, _, _)
send_ban_alerts_Aborting(st, gl, ban_id, user_id, origin_server_id, integrity, banOk, sendOk) ==
    IF gl = <<>> THEN st
    ELSE LET st1 == send_ban_alerts_guild(st, Head(gl), ban_id, user_id, origin_server_id,
                                          integrity, banOk[Head(gl)], sendOk[Head(gl)])
         IN  IF \E x \in st1.notified \ st.notified : ~x.ok
             THEN st1
             ELSE send_ban_alerts_Aborting(st1, Tail(gl), ban_id, user_id,
                                           origin_server_id, integrity, banOk, sendOk)

\* for guild in self.bot.guilds: ...
RECURSIVE send_ban_alerts(_, _, _, _, _, _, _, _)
send_ban_alerts(st, gl, ban_id, user_id, origin_server_id, integrity, banOk, sendOk) ==
    IF gl = <<>> THEN st
    ELSE send_ban_alerts(
            send_ban_alerts_guild(st, Head(gl), ban_id, user_id, origin_server_id,
                                  integrity, banOk[Head(gl)], sendOk[Head(gl)]),
            Tail(gl), ban_id, user_id, origin_server_id, integrity, banOk, sendOk)

\* ------------------------------------------------------------------------
\* Bans.on_member_ban
\* ------------------------------------------------------------------------
\* The two dedup queries: a ban of this user from this server, or from any
\* server, with flagged_at > current_time - 300.
existing_ban_from_this_server(B, user_id, guild, t) ==
    \E b \in DOMAIN B : /\ B[b].user_id = user_id
                        /\ B[b].origin_server_id = guild
                        /\ B[b].flagged_at > t - DedupWindow

\* The second dedup query finding nothing.
existing_ban_from_any_server_Never(B, user_id, t) == FALSE

existing_ban_from_any_server(B, user_id, t) ==
    \E b \in DOMAIN B : /\ B[b].user_id = user_id
                        /\ B[b].flagged_at > t - DedupWindow

\* Whether guild.ban / channel.send succeeds in each guild of the loop.
Outcomes == [Nodes -> BOOLEAN]

\* The audit-log lookup of on_member_ban gives one of:
\*   "forbidden"  the bot may not read the audit log
\*   "noreason"   no entry for the user, or an entry without a reason
\*   "bot"        the ban was issued by the bot itself
\*   "moderator"  a ban with a reason issued by somebody else
AuditResults == {"forbidden", "noreason", "bot", "moderator"}

\* The early returns without the blacklist test.
IgnoredBan_NoBlacklist(guild, audit) ==
    \/ guild \notin DOMAIN servers
    \/ audit \in {"forbidden", "noreason", "bot"}

\* The early returns without the test for bans issued by the bot itself.
IgnoredBan_BotBansCount(guild, audit) ==
    \/ guild \notin DOMAIN servers
    \/ servers[guild].blacklisted
    \/ audit \in {"forbidden", "noreason"}

\* The early returns of on_member_ban that precede the rate limiter.
IgnoredBan(guild, audit) ==
    \/ guild \notin DOMAIN servers
    \/ servers[guild].blacklisted
    \/ audit \in {"forbidden", "noreason", "bot"}

on_member_ban(guild, user_id, audit, banOk, sendOk) ==
    /\ guild \in guilds
    /\ lastOp' = Op("on_member_ban", guild, guild, user_id, nextBanId, audit,
                    IntegrityOf(servers, guild))
    /\ UNCHANGED <<altVars, ingests, now, ticks, guilds, ban_actions, reviewViews, handlers, cfgOps>>
    /\ IF IgnoredBan(guild, audit)
       THEN UNCHANGED <<servers, bans, nextBanId, server_bans, views, notified, enforced>>
       ELSE LET rl == can_send_alert(server_bans, guild, now) IN
            /\ server_bans' = rl.server_bans
            /\ IF \/ ~rl.ok
                  \/ existing_ban_from_this_server(bans, user_id, guild, now)
                  \/ existing_ban_from_any_server(bans, user_id, now)
               THEN UNCHANGED <<servers, bans, nextBanId, views, notified, enforced>>
               ELSE LET ban_id == nextBanId
                        B1 == [b \in DOMAIN bans \cup {ban_id} |->
                                 IF b = ban_id
                                 THEN [user_id |-> user_id,
                                       origin_server_id |-> guild,
                                       flagged_at |-> now,
                                       status |-> "Pending"]
                                 ELSE bans[b]]
                        integrity == servers[guild].integrity
                        st == send_ban_alerts(
                                 [servers |-> servers, bans |-> B1, views |-> views,
                                  notified |-> notified, enforced |-> enforced],
                                 GuildList(guilds), ban_id, user_id, guild,
                                 integrity, banOk, sendOk)
                    IN  /\ nextBanId' = nextBanId + 1
                        /\ servers' = st.servers
                        /\ bans' = st.bans
                        /\ views' = st.views
                        /\ notified' = st.notified
                        /\ enforced' = st.enforced

\* ------------------------------------------------------------------------
\* Bans.on_member_ban, one step per stretch between awaits
\* ------------------------------------------------------------------------
\* A suspended coroutine is [guild, user_id, pc, t, ban_id, integrity]: pc is
\* the stretch it runs next, t its current_time, ban_id the row it inserted,
\* integrity the value it read for the fan-out.
Ingest(guild, user_id, pc, t, ban_id, integrity) ==
    [guild |-> guild, user_id |-> user_id, pc |-> pc, t |-> t,
     ban_id |-> ban_id, integrity |-> integrity]

IngestFrame ==
    UNCHANGED <<altVars, now, ticks, guilds, ban_actions, reviewViews, handlers, cfgOps>>

\* The SELECT blacklisted at the head of the handler.
ingest_start(guild, user_id) ==
    /\ guild \in guilds
    /\ lastOp' = Op("ingest_start", guild, guild, user_id, 0, "", IntegrityOf(servers, guild))
    /\ ingests' = IF IgnoredBan(guild, "moderator") THEN ingests
                  ELSE ingests \cup {Ingest(guild, user_id, "audit", 0, 0, 0)}
    /\ IngestFrame
    /\ UNCHANGED <<servers, bans, nextBanId, server_bans, views, notified, enforced>>

\* After the sleep: the audit log, the reason and moderator tests, the rate
\* limiter and current_time.  The audit log of a guild the bot has left is
\* forbidden.
ingest_audit(i, audit) ==
    /\ i \in ingests /\ i.pc = "audit"
    /\ i.guild \notin guilds => audit = "forbidden"
    /\ lastOp' = Op("ingest_audit", i.guild, i.guild, i.user_id, 0, audit, 0)
    /\ IngestFrame
    /\ UNCHANGED <<servers, bans, nextBanId, views, notified, enforced>>
    /\ IF audit # "moderator"
       THEN ingests' = ingests \ {i} /\ server_bans' = server_bans
       ELSE LET rl == can_send_alert(server_bans, i.guild, now) IN
            /\ server_bans' = rl.server_bans
            /\ ingests' = IF rl.ok
                          THEN (ingests \ {i}) \cup {[i EXCEPT !.pc = "dedup", !.t = now]}
                          ELSE ingests \ {i}

\* The two dedup queries.
ingest_dedup(i) ==
    /\ i \in ingests /\ i.pc = "dedup"
    /\ lastOp' = Op("ingest_dedup", i.guild, i.guild, i.user_id, 0, "", 0)
    /\ IngestFrame
    /\ UNCHANGED <<servers, bans, nextBanId, server_bans, views, notified, enforced>>
    /\ ingests' = IF \/ existing_ban_from_this_server(bans, i.user_id, i.guild, i.t)
                     \/ existing_ban_from_any_server(bans, i.user_id, i.t)
                  THEN ingests \ {i}
                  ELSE (ingests \ {i}) \cup {[i EXCEPT !.pc = "insert"]}

\* INSERT INTO bans (...) VALUES (..., current_time, 'Pending'); commit.
ingest_insert(i) ==
    /\ i \in ingests /\ i.pc = "insert"
    /\ lastOp' = Op("ingest_insert", i.guild, i.guild, i.user_id, nextBanId, "", 0)
    /\ IngestFrame
    /\ UNCHANGED <<servers, server_bans, views, notified, enforced>>
    /\ bans' = [b \in DOMAIN bans \cup {nextBanId} |->
                  IF b = nextBanId
                  THEN [user_id |-> i.user_id, origin_server_id |-> i.guild,
                        flagged_at |-> i.t, status |-> "Pending"]
                  ELSE bans[b]]
    /\ nextBanId' = nextBanId + 1
    /\ ingests' = (ingests \ {i}) \cup {[i EXCEPT !.pc = "integrity", !.ban_id = nextBanId]}

\* SELECT integrity; a server without a row is inserted with integrity 100.
ingest_integrity(i) ==
    /\ i \in ingests /\ i.pc = "integrity"
    /\ lastOp' = Op("ingest_integrity", i.guild, i.guild, i.user_id, i.ban_id, "", 0)
    /\ IngestFrame
    /\ UNCHANGED <<bans, nextBanId, server_bans, views, notified, enforced>>
    /\ servers' = IF i.guild \in DOMAIN servers THEN servers
                  ELSE [n \in DOMAIN servers \cup {i.guild} |->
                          IF n = i.guild
                          THEN ServerRow(100, FALSE, FALSE, FALSE, {})
                          ELSE servers[n]]
    /\ ingests' = (ingests \ {i}) \cup
                     {[i EXCEPT !.pc = "fanout",
                                !.integrity = IF i.guild \in DOMAIN servers
                                              THEN servers[i.guild].integrity
                                              ELSE 100]}

\* send_ban_alerts over the guilds the bot is in now.
ingest_fanout(i, banOk, sendOk) ==
    /\ i \in ingests /\ i.pc = "fanout"
    /\ lastOp' = Op("ingest_fanout", i.guild, i.guild, i.user_id, i.ban_id, "", i.integrity)
    /\ IngestFrame
    /\ UNCHANGED <<nextBanId, server_bans>>
    /\ ingests' = ingests \ {i}
    /\ LET st == send_ban_alerts(
                    [servers |-> servers, bans |-> bans, views |-> views,
                     notified |-> notified, enforced |-> enforced],
                    GuildList(guilds), i.ban_id, i.user_id, i.guild,
                    i.integrity, banOk, sendOk)
       IN  /\ servers' = st.servers
           /\ bans' = st.bans
           /\ views' = st.views
           /\ notified' = st.notified
           /\ enforced' = st.enforced

\* ------------------------------------------------------------------------
\* BanAlertView: the Accept / Dismiss buttons of a delivered alert
\* ------------------------------------------------------------------------
\* preChecks and the administrator check let the callback through.
MayResolve(actor) == ~preChecks(actor) /\ administrator(actor)

\* accept_button up to db.commit(): one transaction on bans, servers, ban_actions.
BanAlertView_accept_button(v, actor) ==
    /\ v \in views /\ ~v.disabled
    /\ lastOp' = Op("accept", v.guild, v.origin_server_id, v.user_id, v.ban_id, actor,
                    IntegrityOf(servers, v.origin_server_id))
    /\ UNCHANGED <<altVars, ingests, now, ticks, guilds, nextBanId, server_bans, views, reviewViews,
                   notified, enforced, cfgOps>>
    /\ IF MayResolve(actor)
       THEN /\ Len(ban_actions) < MaxActions
            /\ Cardinality(handlers) < MaxHandlers
            /\ bans' = UpdateBanStatus(bans, v.ban_id, "Accepted")
            /\ servers' = UpdateIntegrityUp(servers, v.origin_server_id)
            /\ ban_actions' = Append(ban_actions,
                                 [ban_id |-> v.ban_id, action |-> "Accepted",
                                  by_user_id |-> actor, timestamp |-> now])
            /\ handlers' = handlers \cup {[view |-> v, button |-> "accept"]}
       ELSE UNCHANGED <<bans, servers, ban_actions, handlers>>

\* A dismiss_button that leaves an event alone.
BanAlertView_dismiss_button_NoOp(v, actor) ==
    /\ v \in views /\ ~v.disabled
    /\ lastOp' = Op("dismiss", v.guild, v.origin_server_id, v.user_id, v.ban_id, actor,
                    IntegrityOf(servers, v.origin_server_id))
    /\ UNCHANGED <<altVars, ingests, now, ticks, guilds, nextBanId, server_bans, views, reviewViews,
                   notified, enforced, cfgOps, bans, servers, ban_actions, handlers>>

\* dismiss_button up to db.commit().
BanAlertView_dismiss_button(v, actor) ==
    /\ v \in views /\ ~v.disabled
    /\ lastOp' = Op("dismiss", v.guild, v.origin_server_id, v.user_id, v.ban_id, actor,
                    IntegrityOf(servers, v.origin_server_id))
    /\ UNCHANGED <<altVars, ingests, now, ticks, guilds, nextBanId, server_bans, views, reviewViews,
                   notified, enforced, cfgOps>>
    /\ IF MayResolve(actor)
       THEN /\ Len(ban_actions) < MaxActions
            /\ Cardinality(handlers) < MaxHandlers
            /\ bans' = UpdateBanStatus(bans, v.ban_id, "Dismissed")
            /\ servers' = UpdateIntegrityDown(servers, v.origin_server_id)
            /\ ban_actions' = Append(ban_actions,
                                 [ban_id |-> v.ban_id, action |-> "Dismissed",
                                  by_user_id |-> actor, timestamp |-> now])
            /\ handlers' = handlers \cup {[view |-> v, button |-> "dismiss"]}
       ELSE UNCHANGED <<bans, servers, ban_actions, handlers>>

\* The rest of a button callback, after the commit: Accept bans the user in
\* the reviewer's guild (the ban may fail), both disable the buttons of the
\* alert message.
BanAlertView_finish(h, banOk) ==
    /\ h \in handlers
    /\ handlers' = handlers \ {h}
    /\ views' = {IF w.guild = h.view.guild /\ w.ban_id = h.view.ban_id
                 THEN [w EXCEPT !.disabled = TRUE] ELSE w : w \in views}
    /\ enforced' = IF h.button = "accept"
                   THEN enforced \cup {[guild |-> h.view.guild,
                                        user_id |-> h.view.user_id,
                                        ban_id |-> h.view.ban_id,
                                        ok |-> banOk, by |-> "accept"]}
                   ELSE enforced
    /\ lastOp' = Op("finish", h.view.guild, h.view.origin_server_id, h.view.user_id,
                    h.view.ban_id, h.button, 0)
    /\ UNCHANGED <<altVars, ingests, now, ticks, guilds, servers, bans, nextBanId, ban_actions,
                   server_bans, reviewViews, notified, cfgOps>>

\* ------------------------------------------------------------------------
\* /flag, /review and the ReviewView buttons
\* ------------------------------------------------------------------------
\* A flag stored like a ban report, with status 'Pending'.
flag_AsPending(guild, user_id, actor) ==
    /\ guild \in guilds
    /\ lastOp' = Op("flag", guild, guild, user_id, nextBanId, actor, 0)
    /\ UNCHANGED <<altVars, ingests, now, ticks, guilds, servers, ban_actions, server_bans, views,
                   reviewViews, handlers, notified, enforced, cfgOps>>
    /\ IF MayResolve(actor)
       THEN /\ nextBanId <= MaxBans
            /\ bans' = [b \in DOMAIN bans \cup {nextBanId} |->
                          IF b = nextBanId
                          THEN [user_id |-> user_id, origin_server_id |-> guild,
                                flagged_at |-> now, status |-> "Pending"]
                          ELSE bans[b]]
            /\ nextBanId' = nextBanId + 1
       ELSE UNCHANGED <<bans, nextBanId>>

\* Bans.flag: a row with status 'Review'; no alert is sent to anybody.
flag(guild, user_id, actor) ==
    /\ guild \in guilds
    /\ lastOp' = Op("flag", guild, guild, user_id, nextBanId, actor, 0)
    /\ UNCHANGED <<altVars, ingests, now, ticks, guilds, servers, ban_actions, server_bans, views,
                   reviewViews, handlers, notified, enforced, cfgOps>>
    /\ IF MayResolve(actor)
       THEN /\ nextBanId <= MaxBans
            /\ bans' = [b \in DOMAIN bans \cup {nextBanId} |->
                          IF b = nextBanId
                          THEN [user_id |-> user_id, origin_server_id |-> guild,
                                flagged_at |-> now, status |-> "Review"]
                          ELSE bans[b]]
            /\ nextBanId' = nextBanId + 1
       ELSE UNCHANGED <<bans, nextBanId>>

\* Review.review: one ReviewView per flag whose origin has a servers row.
review(actor) ==
    /\ lastOp' = Op("review", 0, 0, 0, 0, actor, 0)
    /\ reviewViews' =
          IF ~preChecks(actor) /\ actor = OWNER
          THEN reviewViews \cup {b \in DOMAIN bans :
                                    /\ bans[b].status = "Review"
                                    /\ bans[b].origin_server_id \in DOMAIN servers}
          ELSE reviewViews
    /\ UNCHANGED <<altVars, ingests, now, ticks, guilds, servers, bans, nextBanId, ban_actions,
                   server_bans, views, handlers, notified, enforced, cfgOps>>

\* The review buttons without the maintenance and owner checks.
ReviewView_button_AnyActor(flag_id, status, actor) ==
    /\ flag_id \in reviewViews
    /\ lastOp' = Op("review_" \o status, 0, 0, 0, flag_id, actor, 0)
    /\ bans' = UpdateBanStatus(bans, flag_id, status)
    /\ UNCHANGED <<altVars, ingests, now, ticks, guilds, servers, nextBanId, ban_actions, server_bans,
                   views, reviewViews, handlers, notified, enforced, cfgOps>>

\* ReviewView.accept_button / reject_button: UPDATE bans SET status = ?.
\* The message is never edited (response.edit_message after response.defer
\* raises), so the buttons stay usable.
ReviewView_button(flag_id, status, actor) ==
    /\ flag_id \in reviewViews
    /\ lastOp' = Op("review_" \o status, 0, 0, 0, flag_id, actor, 0)
    /\ bans' = IF ~preChecks(actor) /\ actor = OWNER
               THEN UpdateBanStatus(bans, flag_id, status)
               ELSE bans
    /\ UNCHANGED <<altVars, ingests, now, ticks, guilds, servers, nextBanId, ban_actions, server_bans,
                   views, reviewViews, handlers, notified, enforced, cfgOps>>

ReviewView_accept_button(flag_id, actor) == ReviewView_button(flag_id, "Accepted", actor)

ReviewView_reject_button(flag_id, actor) == ReviewView_button(flag_id, "Rejected", actor)

\* ------------------------------------------------------------------------
\* Membership and configuration
\* ------------------------------------------------------------------------
\* Systems.on_guild_join: INSERT OR IGNORE INTO servers (server_id).
on_guild_join(guild) ==
    /\ guild \notin guilds
    /\ cfgOps' = cfgOps + 1
    /\ guilds' = guilds \cup {guild}
    /\ servers' = IF guild \in DOMAIN servers THEN servers
                  ELSE [n \in DOMAIN servers \cup {guild} |->
                          IF n = guild THEN DefaultRow ELSE servers[n]]
    /\ lastOp' = Op("on_guild_join", guild, 0, 0, 0, "", 0)
    /\ UNCHANGED <<altVars, ingests, now, ticks, bans, nextBanId, ban_actions, server_bans, views,
                   reviewViews, handlers, notified, enforced>>

\* main.on_guild_remove: delete the server's row and the bans it issued.
on_guild_remove(guild) ==
    /\ guild \in guilds
    /\ cfgOps' = cfgOps + 1
    /\ guilds' = guilds \ {guild}
    /\ servers' = [n \in DOMAIN servers \ {guild} |-> servers[n]]
    /\ bans' = [b \in {x \in DOMAIN bans : bans[x].origin_server_id # guild} |-> bans[b]]
    /\ lastOp' = Op("on_guild_remove", guild, 0, 0, 0, "", 0)
    /\ UNCHANGED <<altVars, ingests, now, ticks, nextBanId, ban_actions, server_bans, views,
                   reviewViews, handlers, notified, enforced>>

\* /setup runs the wizard only while no alert channel is stored.
SetupAllowed(guild) ==
    IF guild \in DOMAIN servers THEN ~servers[guild].alert_channel ELSE TRUE

\* NewSetupView.save_preferences at the end of the wizard:
\* INSERT OR REPLACE INTO servers (...) VALUES (?, ?, 100, 0).
save_preferences(guild, alert_channel, auto_ban) ==
    /\ guild \in guilds
    /\ SetupAllowed(guild)
    /\ cfgOps' = cfgOps + 1
    /\ servers' = [n \in DOMAIN servers \cup {guild} |->
                     IF n = guild
                     THEN ServerRow(100, FALSE, auto_ban, alert_channel, {})
                     ELSE servers[n]]
    /\ lastOp' = Op("save_preferences", guild, 0, 0, 0, "", 0)
    /\ UNCHANGED <<altVars, ingests, now, ticks, guilds, bans, nextBanId, ban_actions, server_bans,
                   views, reviewViews, handlers, notified, enforced>>

\* DashboardView.toggle_auto_ban on a dashboard that was just opened.
toggle_auto_ban(guild) ==
    /\ guild \in guilds
    /\ guild \in DOMAIN servers
    /\ cfgOps' = cfgOps + 1
    /\ servers' = [servers EXCEPT ![guild].auto_ban = ~@]
    /\ lastOp' = Op("toggle_auto_ban", guild, 0, 0, 0, "", 0)
    /\ UNCHANGED <<altVars, ingests, now, ticks, guilds, bans, nextBanId, ban_actions, server_bans,
                   views, reviewViews, handlers, notified, enforced>>

\* Review.strike by the bot owner: blacklist a server, known or not.
strike(server_id) ==
    /\ cfgOps' = cfgOps + 1
    /\ servers' = [n \in DOMAIN servers \cup {server_id} |->
                     IF n = server_id
                     THEN IF server_id \in DOMAIN servers
                          THEN [servers[n] EXCEPT !.blacklisted = TRUE]
                          ELSE [DefaultRow EXCEPT !.blacklisted = TRUE]
                     ELSE servers[n]]
    /\ lastOp' = Op("strike", server_id, 0, 0, 0, "", 0)
    /\ UNCHANGED <<altVars, ingests, now, ticks, guilds, bans, nextBanId, ban_actions, server_bans,
                   views, reviewViews, handlers, notified, enforced>>

\* ------------------------------------------------------------------------
\* Bans.on_member_join: a previously banned user joins a server
\* ------------------------------------------------------------------------
\* SELECT b.*, s.integrity FROM bans b JOIN servers s
\*   ON b.origin_server_id = s.server_id
\*   WHERE b.user_id = ? AND b.status = 'Accepted'
ban_records(user_id) ==
    {b \in DOMAIN bans : /\ bans[b].user_id = user_id
                         /\ bans[b].status = "Accepted"
                         /\ bans[b].origin_server_id \in DOMAIN servers}

\* ORDER BY b.flagged_at DESC: the rows that may come first.
most_recent_ban(records) ==
    {b \in records : \A c \in records : bans[c].flagged_at <= bans[b].flagged_at}

\* The handler: nothing for a bot, a user without accepted bans, a server
\* without a row or without an alert channel; otherwise one channel.send of
\* the join alert, whose failure is caught and printed.
Bans_on_member_join(guild, user_id, bot, sendOk) ==
    /\ guild \in guilds
    /\ UNCHANGED <<altVars, ingests, now, ticks, guilds, servers, bans, nextBanId, ban_actions,
                   server_bans, views, reviewViews, handlers, enforced, cfgOps>>
    /\ LET records == ban_records(user_id) IN
       IF bot
       THEN /\ lastOp' = Op("ban_join", guild, 0, user_id, 0, "bot", 0)
            /\ UNCHANGED notified
       ELSE IF records = {}
       THEN /\ lastOp' = Op("ban_join", guild, 0, user_id, 0, "no_records", 0)
            /\ UNCHANGED notified
       ELSE IF guild \notin DOMAIN servers
       THEN /\ lastOp' = Op("ban_join", guild, 0, user_id, 0, "no_row", 0)
            /\ UNCHANGED notified
       ELSE IF ~servers[guild].alert_channel
       THEN /\ lastOp' = Op("ban_join", guild, 0, user_id, 0, "no_channel", 0)
            /\ UNCHANGED notified
       ELSE \E b \in most_recent_ban(records) :
               /\ lastOp' = Op("ban_join", guild, bans[b].origin_server_id, user_id, b,
                               "alert", Cardinality(records))
               /\ notified' = notified \cup {[guild |-> guild, ban_id |-> b,
                                              kind |-> "join", ok |-> sendOk]}

\* The clock.
Tick(d) ==
    /\ ticks < MaxTicks
    /\ ticks' = ticks + 1
    /\ now' = now + d
    /\ lastOp' = Op("tick", 0, 0, 0, 0, "", 0)
    /\ UNCHANGED <<altVars, ingests, guilds, servers, bans, nextBanId, ban_actions, server_bans, views,
                   reviewViews, handlers, notified, enforced, cfgOps>>

\* ------------------------------------------------------------------------
\* cogs/alts.py: alt detection on member join
\* ------------------------------------------------------------------------
RuleNames == {"new_account", "no_avatar", "alt_name", "default_name", "previous_ban", "quick_join"}

\* A value of the JSON column alt_settings.settings.
Settings(enabled, threshold, rules, auto_kick, auto_ban) ==
    [enabled |-> enabled, threshold |-> threshold, rules |-> rules,
     auto_kick |-> auto_kick, auto_ban |-> auto_ban]

\* on_member_join: the settings used when the server has no alt_settings row.
DefaultSettings ==
    Settings(TRUE, DefaultThreshold, [r \in RuleNames |-> TRUE], FALSE, FALSE)

\* get_server_settings, followed by "if not settings: settings = {defaults}".
get_server_settings(guild) ==
    IF guild \in DOMAIN alt_settings THEN alt_settings[guild] ELSE DefaultSettings

\* Names are sequences of characters.
UpperCase == {"A", "L", "T", "U"}
LowerCase == {"a", "l", "t", "u", "s", "e", "r", "b", "o"}
Digits == {"1", "2", "3", "4", "5"}

\* str.lower(), character by character.
lower(c) ==
    CASE c = "A" -> "a" [] c = "L" -> "l" [] c = "T" -> "t" [] c = "U" -> "u"
      [] OTHER -> c

str_lower_Identity(s) == s

str_lower(s) == [i \in 1..Len(s) |-> lower(s[i])]

\* sub in s
contains(sub, s) ==
    \E i \in 1..(Len(s) - Len(sub) + 1) : SubSeq(s, i, i + Len(sub) - 1) = sub

\* re.match(r'^[a-zA-Z]+\d{4}$', name)
re_match_default(name) ==
    \E k \in 1..(Len(name) - 4) :
        /\ \A i \in 1..k : name[i] \in UpperCase \cup LowerCase
        /\ \A i \in (k + 1)..(k + 4) : name[i] \in Digits
        /\ k + 4 = Len(name)

\* (datetime.now(timezone.utc) - member.created_at).days
account_age(member) == (now - member.created_at) \div SecondsPerDay

\* A rule 5 that finds an earlier ban under the same name.
check_previous_ban_with_same_name_Found(guild, user_id, name) == TRUE

\* check_previous_ban_with_same_name: every path returns False.
check_previous_ban_with_same_name(guild, user_id, name) == FALSE

\* check_quick_join counting a join that is exactly 120 s old.
check_quick_join_Inclusive(guild, user_id) ==
    IF guild \notin DOMAIN recent_joins THEN FALSE
    ELSE \E i \in 1..Len(recent_joins[guild]) :
            /\ recent_joins[guild][i][1] # user_id
            /\ now - recent_joins[guild][i][2] <= QuickJoinWindow

\* check_quick_join: another user joined this guild less than 120 s ago.
check_quick_join(guild, user_id) ==
    IF guild \notin DOMAIN recent_joins THEN FALSE
    ELSE \E i \in 1..Len(recent_joins[guild]) :
            /\ recent_joins[guild][i][1] # user_id
            /\ now - recent_joins[guild][i][2] < QuickJoinWindow

is_user_dismissed(guild, user_id) == <<guild, user_id>> \in alt_dismissed

\* The six rule blocks of on_member_join, in order: the (rule, points) pairs
\* it adds to heat_score and stores in triggered_rules.
Points(rules, guild, member) ==
    (IF rules["new_account"] /\ account_age(member) < NewAccountDays
        THEN << <<"new_account", 50>> >> ELSE <<>>)
    \o (IF rules["no_avatar"] /\ ~member.avatar
        THEN << <<"no_avatar", 30>> >> ELSE <<>>)
    \o (IF rules["alt_name"] /\ (\/ contains(<<"a", "l", "t">>, str_lower(member.name))
                                 \/ contains(<<"a", "l", "t">>, str_lower(member.display_name)))
        THEN << <<"alt_name", 30>> >> ELSE <<>>)
    \o (IF rules["default_name"] /\ re_match_default(member.name)
        THEN << <<"default_name", 20>> >> ELSE <<>>)
    \o (IF rules["previous_ban"]
            /\ check_previous_ban_with_same_name(guild, member.id, member.name)
        THEN << <<"previous_ban", 40>> >> ELSE <<>>)
    \o (IF rules["quick_join"] /\ check_quick_join(guild, member.id)
        THEN << <<"quick_join", 25>> >> ELSE <<>>)

\* heat_score: the points added up.
RECURSIVE heat_score(_)
heat_score(points) ==
    IF points = <<>> THEN 0 ELSE Head(points)[2] + heat_score(Tail(points))

\* triggered_rules: rule -> points.
triggered_rules(points) ==
    [r \in {points[i][1] : i \in 1..Len(points)} |->
        points[CHOOSE i \in 1..Len(points) : points[i][1] = r][2]]

\* "if heat_score < threshold: return"
BelowThreshold_Inclusive(score, threshold) == score <= threshold

BelowThreshold(score, threshold) == score < threshold

\* lastJoin: the n-th join, its guild and member, whether the score was
\* computed, the score and the triggered rules, and how the handler ended.
Join(n, guild, member, evaluated, score, triggered, outcome) ==
    [n |-> n, guild |-> guild, member |-> member, evaluated |-> evaluated,
     heat_score |-> score, triggered_rules |-> triggered, outcome |-> outcome]

\* A message sent (or attempted) to the alert channel by the alt detection.
AltAlert(guild, user_id, kind, score, triggered, ok) ==
    [guild |-> guild, user_id |-> user_id, kind |-> kind, heat_score |-> score,
     triggered_rules |-> triggered, ok |-> ok]

\* self.recent_joins[guild].append((member.id, time.time()))
record_join(guild, user_id) ==
    IF guild \in DOMAIN recent_joins
    THEN [recent_joins EXCEPT ![guild] = Append(@, <<user_id, now>>)]
    ELSE [g \in DOMAIN recent_joins \cup {guild} |->
             IF g = guild THEN << <<user_id, now>> >> ELSE recent_joins[g]]

\* log_alt_action for an action other than "dismissed".
log_alt_action(guild, user_id, action, by_user_id) ==
    Append(alt_actions, [server_id |-> guild, user_id |-> user_id, action |-> action,
                         by_user_id |-> by_user_id, timestamp |-> now])

\* Alts.on_member_join.  actOk: member.kick / guild.ban succeeds; noticeOk: the
\* send of the auto-kick / auto-ban notice succeeds; alertOk: the send of the
\* manual alert succeeds.
on_member_join(guild, member, actOk, noticeOk, alertOk) ==
    LET settings == get_server_settings(guild)
        points == Points(settings.rules, guild, member)
        score == heat_score(points)
        triggered == triggered_rules(points)
        auto == IF settings.auto_kick THEN "kick"
                ELSE IF settings.auto_ban THEN "ban" ELSE "none"
        configured == IF guild \in DOMAIN servers THEN servers[guild].alert_channel ELSE FALSE
        skipped == member.bot \/ ~settings.enabled \/ is_user_dismissed(guild, member.id)
        quiet == BelowThreshold(score, settings.threshold) \/ ~configured
        manual == AltAlert(guild, member.id, "alert", score, triggered, alertOk)
        notice == AltAlert(guild, member.id, auto, score, triggered, noticeOk)
        attempt == [guild |-> guild, user_id |-> member.id, action |-> auto, ok |-> actOk]
        outcome == CASE member.bot -> "bot"
                     [] ~member.bot /\ ~settings.enabled -> "disabled"
                     [] ~member.bot /\ settings.enabled /\ is_user_dismissed(guild, member.id)
                           -> "dismissed"
                     [] ~skipped /\ BelowThreshold(score, settings.threshold) -> "below"
                     [] ~skipped /\ ~BelowThreshold(score, settings.threshold) /\ ~configured
                           -> "no_channel"
                     [] ~skipped /\ ~quiet /\ auto # "none" /\ actOk /\ noticeOk
                           -> (IF auto = "kick" THEN "auto-kicked" ELSE "auto-banned")
                     [] OTHER -> (IF alertOk THEN "alert" ELSE "error")
    IN
    /\ guild \in guilds
    /\ lastJoin' = Join(lastJoin.n + 1, guild, member, ~skipped,
                        IF skipped THEN 0 ELSE score,
                        IF skipped THEN <<>> ELSE triggered, outcome)
    /\ lastOp' = Op("on_member_join", guild, 0, member.id, 0, outcome, 0)
    /\ recent_joins' = IF skipped THEN recent_joins ELSE record_join(guild, member.id)
    /\ alt_enforced' = IF skipped \/ quiet \/ auto = "none" THEN alt_enforced
                       ELSE Append(alt_enforced, attempt)
    /\ alt_alerts' =
          IF skipped \/ quiet THEN alt_alerts
          ELSE IF auto = "none" \/ ~actOk THEN Append(alt_alerts, manual)
          ELSE IF noticeOk THEN Append(alt_alerts, notice)
          ELSE Append(Append(alt_alerts, notice), manual)
    /\ alt_actions' =
          IF ~skipped /\ ~quiet /\ auto # "none" /\ actOk /\ noticeOk
          THEN log_alt_action(guild, member.id,
                              IF auto = "kick" THEN "auto-kicked" ELSE "auto-banned", BotUser)
          ELSE alt_actions
    /\ UNCHANGED <<alt_settings, alt_dismissed, panels, alt_clicks, alt_disabled>>
    /\ UNCHANGED <<now, ticks, guilds, servers, bans, nextBanId, ban_actions, server_bans,
                   views, reviewViews, handlers, notified, enforced, cfgOps, ingests>>

\* cogs/alts.py before any member joined: no settings rows, nobody dismissed.
NoJoin == Join(0, 0, [id |-> 0], FALSE, 0, <<>>, "")

AltsInit ==
    /\ alt_settings = <<>>
    /\ alt_dismissed = {}
    /\ alt_actions = <<>>
    /\ recent_joins = <<>>
    /\ alt_alerts = <<>>
    /\ alt_enforced = <<>>
    /\ lastJoin = NoJoin
    /\ panels = <<>> /\ alt_clicks = {} /\ alt_disabled = {}

\* ------------------------------------------------------------------------
\* cogs/alts.py: check_expired_joins, the periodic sweep of recent_joins
\* ------------------------------------------------------------------------
\* The list comprehension, keeping also a join that is exactly 600 s old.
FreshJoins_Inclusive(joins) == SelectSeq(joins, LAMBDA e : now - e[2] <= JoinRetention)

\* The list comprehension of check_expired_joins.
FreshJoins(joins) == SelectSeq(joins, LAMBDA e : now - e[2] < JoinRetention)

\* check_expired_joins: the loop body contains no await, so the sweep of all
\* guilds is one step.
check_expired_joins ==
    /\ recent_joins' = [g \in {h \in DOMAIN recent_joins : FreshJoins(recent_joins[h]) # <<>>} |->
                           FreshJoins(recent_joins[g])]
    /\ lastOp' = Op("check_expired_joins", 0, 0, 0, 0, "", 0)
    /\ UNCHANGED <<alt_settings, alt_dismissed, alt_actions, alt_alerts, alt_enforced,
                   lastJoin, panels, alt_clicks, alt_disabled>>
    /\ UNCHANGED <<now, ticks, guilds, servers, bans, nextBanId, ban_actions, server_bans,
                   views, reviewViews, handlers, notified, enforced, cfgOps, ingests>>

\* ------------------------------------------------------------------------
\* cogs/alts.py: AltDetectionView, the Kick / Ban / Dismiss buttons of an alert
\* ------------------------------------------------------------------------
\* log_alt_action of "dismissed": INSERT OR REPLACE INTO alt_dismissed.
Dismissed_NotStored(dismissed, guild, user_id, action) == dismissed

Dismissed(dismissed, guild, user_id, action) ==
    IF action = "dismissed" THEN dismissed \cup {<<guild, user_id>>} ELSE dismissed

\* A button callback up to its first change: defer, preChecks and the
\* administrator check.  The buttons are clickable until the alert message
\* has been edited; nothing in the callback looks at an earlier click.
AltDetectionView_button(a, button, actor) ==
    /\ a \in DOMAIN alt_alerts
    /\ alt_alerts[a].kind = "alert" /\ alt_alerts[a].ok
    /\ a \notin alt_disabled
    /\ lastOp' = Op(CASE button = "kick" -> "alt_kick" [] button = "ban" -> "alt_ban"
                      [] OTHER -> "alt_dismiss",
                    alt_alerts[a].guild, 0, alt_alerts[a].user_id, a, actor, 0)
    /\ alt_clicks' = IF MayResolve(actor)
                     THEN alt_clicks \cup {[alert |-> a, button |-> button, actor |-> actor]}
                     ELSE alt_clicks
    /\ UNCHANGED <<alt_settings, alt_dismissed, alt_actions, recent_joins, alt_alerts,
                   alt_enforced, lastJoin, panels, alt_disabled>>
    /\ UNCHANGED <<now, ticks, guilds, servers, bans, nextBanId, ban_actions, server_bans,
                   views, reviewViews, handlers, notified, enforced, cfgOps, ingests>>

AltDetectionView_kick_button(a, actor) == AltDetectionView_button(a, "kick", actor)

AltDetectionView_ban_button(a, actor) == AltDetectionView_button(a, "ban", actor)

AltDetectionView_dismiss_button(a, actor) == AltDetectionView_button(a, "dismiss", actor)

\* The rest of a button callback: Kick and Ban act on the member (the act may
\* fail or find the member gone), all three disable the buttons of the alert
\* message and call log_alt_action.
AltDetectionView_finish(c, actOk) ==
    LET a == c.alert
        guild == alt_alerts[a].guild
        user_id == alt_alerts[a].user_id
        action == CASE c.button = "kick" -> "kicked" [] c.button = "ban" -> "banned"
                    [] OTHER -> "dismissed"
    IN
    /\ c \in alt_clicks
    /\ alt_clicks' = alt_clicks \ {c}
    /\ alt_enforced' = IF c.button = "dismiss" THEN alt_enforced
                       ELSE Append(alt_enforced, [guild |-> guild, user_id |-> user_id,
                                                  action |-> c.button, ok |-> actOk])
    /\ alt_disabled' = alt_disabled \cup {a}
    /\ alt_actions' = log_alt_action(guild, user_id, action, c.actor)
    /\ alt_dismissed' = Dismissed(alt_dismissed, guild, user_id, action)
    /\ lastOp' = Op(CASE c.button = "kick" -> "alt_kicked" [] c.button = "ban" -> "alt_banned"
                      [] OTHER -> "alt_dismissed",
                    guild, 0, user_id, a, c.actor, 0)
    /\ UNCHANGED <<alt_settings, recent_joins, alt_alerts, lastJoin, panels>>
    /\ UNCHANGED <<now, ticks, guilds, servers, bans, nextBanId, ban_actions, server_bans,
                   views, reviewViews, handlers, notified, enforced, cfgOps, ingests>>

\* ------------------------------------------------------------------------
\* cogs/alts.py: the AltSettings panel
\* ------------------------------------------------------------------------
\* An open AltSettings view: its guild, its own settings dict, whether its
\* buttons are rendered as enabled, the save_settings calls that have not yet
\* written, and the clicks it has handled.
Panel(guild, settings, shown, saving, edits) ==
    [guild |-> guild, settings |-> settings, shown |-> shown, saving |-> saving,
     edits |-> edits]

RECURSIVE PanelEdits(_)
PanelEdits(ps) == IF ps = <<>> THEN 0 ELSE Head(ps).edits + PanelEdits(Tail(ps))

\* Alts.alt_settings: open a panel on the stored settings (or the defaults).
alt_settings_panel(guild, actor) ==
    /\ guild \in guilds
    /\ lastOp' = Op("alt_settings", guild, 0, 0, Len(panels) + 1, actor, 0)
    /\ panels' = IF preChecks(actor) THEN panels
                 ELSE Append(panels, Panel(guild, get_server_settings(guild),
                                           get_server_settings(guild).enabled, 0, 0))
    /\ UNCHANGED <<alt_settings, alt_dismissed, alt_actions, recent_joins, alt_alerts,
                   alt_enforced, lastJoin, alt_clicks, alt_disabled>>
    /\ UNCHANGED <<now, ticks, guilds, servers, bans, nextBanId, ban_actions, server_bans,
                   views, reviewViews, handlers, notified, enforced, cfgOps, ingests>>

\* The part of every AltSettings callback before save_settings: defer,
\* preChecks, then the change of self.settings, which contains no await.
PanelClick(p, op, actor, settings) ==
    /\ p \in DOMAIN panels
    /\ lastOp' = Op(op, panels[p].guild, 0, 0, p, actor, 0)
    /\ panels' = IF preChecks(actor) THEN panels
                 ELSE [panels EXCEPT ![p] = Panel(@.guild, settings, @.shown,
                                                  @.saving + 1, @.edits + 1)]
    /\ UNCHANGED <<alt_settings, alt_dismissed, alt_actions, recent_joins, alt_alerts,
                   alt_enforced, lastJoin, alt_clicks, alt_disabled>>
    /\ UNCHANGED <<now, ticks, guilds, servers, bans, nextBanId, ban_actions, server_bans,
                   views, reviewViews, handlers, notified, enforced, cfgOps, ingests>>

\* toggle_alt_system: the only button that stays enabled while the system is off.
AltSettings_toggle_alt_system(p, actor) ==
    /\ p \in DOMAIN panels
    /\ PanelClick(p, "toggle_alt_system", actor,
                  [panels[p].settings EXCEPT !.enabled = ~@])

\* toggle_new_account, toggle_no_avatar, toggle_alt_name, toggle_default_name,
\* toggle_previous_ban, toggle_quick_join.
AltSettings_toggle_rule(p, rule, actor) ==
    /\ p \in DOMAIN panels
    /\ panels[p].shown
    /\ PanelClick(p, "toggle_rule", actor,
                  [panels[p].settings EXCEPT !.rules[rule] = ~@])

\* The settings after toggle_auto_kick, with auto_ban left as it is.
ToggleAutoKick_KeepBan(settings) == [settings EXCEPT !.auto_kick = ~@]

\* The settings after toggle_auto_kick.
ToggleAutoKick(settings) ==
    IF ~settings.auto_kick
    THEN [settings EXCEPT !.auto_kick = TRUE, !.auto_ban = FALSE]
    ELSE [settings EXCEPT !.auto_kick = FALSE]

\* The settings after toggle_auto_ban.
ToggleAutoBan(settings) ==
    IF ~settings.auto_ban
    THEN [settings EXCEPT !.auto_ban = TRUE, !.auto_kick = FALSE]
    ELSE [settings EXCEPT !.auto_ban = FALSE]

AltSettings_toggle_auto_kick(p, actor) ==
    /\ p \in DOMAIN panels
    /\ panels[p].shown
    /\ PanelClick(p, "toggle_auto_kick", actor, ToggleAutoKick(panels[p].settings))

AltSettings_toggle_auto_ban(p, actor) ==
    /\ p \in DOMAIN panels
    /\ panels[p].shown
    /\ PanelClick(p, "toggle_auto_ban", actor, ToggleAutoBan(panels[p].settings))

\* ThresholdSelect.callback
ThresholdSelect_callback(p, value, actor) ==
    /\ p \in DOMAIN panels
    /\ PanelClick(p, "threshold", actor, [panels[p].settings EXCEPT !.threshold = value])

\* AltSettings.save_settings and update_view: json.dumps(self.settings) is
\* evaluated when the UPDATE or INSERT is issued, so what is written is the
\* dict as it is then.  The SELECT and the write are one step: when two
\* panels INSERT the first row of a guild at once, the second INSERT fails
\* and the row is the one the first wrote.
AltSettings_save_settings(p) ==
    /\ p \in DOMAIN panels
    /\ panels[p].saving > 0
    /\ alt_settings' = [g \in DOMAIN alt_settings \cup {panels[p].guild} |->
                           IF g = panels[p].guild THEN panels[p].settings
                           ELSE alt_settings[g]]
    /\ panels' = [panels EXCEPT ![p] = Panel(@.guild, @.settings, @.settings.enabled,
                                             @.saving - 1, @.edits)]
    /\ lastOp' = Op("save_settings", panels[p].guild, 0, 0, p, "", 0)
    /\ UNCHANGED <<alt_dismissed, alt_actions, recent_joins, alt_alerts,
                   alt_enforced, lastJoin, alt_clicks, alt_disabled>>
    /\ UNCHANGED <<now, ticks, guilds, servers, bans, nextBanId, ban_actions, server_bans,
                   views, reviewViews, handlers, notified, enforced, cfgOps, ingests>>

\* ------------------------------------------------------------------------
\* The specification
\* ------------------------------------------------------------------------
\* A federation in use.  Server 1 (integrity 100) and server 2 (integrity 50,
\* auto-ban on) have been set up.  Server 3 (integrity 0) is in one of five
\* situations: set up; set up with server 1 in the blocked_servers of its
\* stored preferences; joined but not set up (no alert channel); joined while
\* the bot was offline (a guild without a servers row); not joined.
Server3 == {"setup", "blocks1", "joined", "norow", "absent"}

Init ==
    /\ now = 0 /\ ticks = 0 /\ cfgOps = 0
    /\ ingests = {}
    /\ AltsInit
    /\ \E s3 \in Server3 :
          /\ guilds = IF s3 = "absent" THEN {1, 2} ELSE {1, 2, 3}
          /\ servers = [n \in (IF s3 \in {"norow", "absent"} THEN {1, 2} ELSE {1, 2, 3}) |->
                          CASE n = 1 -> ServerRow(100, FALSE, FALSE, TRUE, {})
                            [] n = 2 -> ServerRow(50, FALSE, TRUE, TRUE, {})
                            [] n = 3 -> ServerRow(0, FALSE, FALSE, s3 # "joined",
                                                  IF s3 = "blocks1" THEN {1} ELSE {})]
    /\ bans = <<>>
    /\ nextBanId = 1
    /\ ban_actions = <<>>
    /\ server_bans = <<>>
    /\ views = {} /\ reviewViews = {} /\ handlers = {}
    /\ notified = {} /\ enforced = {}
    /\ lastOp = Op("init", 0, 0, 0, 0, "", 0)

\* guild.ban and channel.send succeed everywhere.
AllOk == [n \in Nodes |-> TRUE]

\* guild.ban fails everywhere.
NoneOk == [n \in Nodes |-> FALSE]

\* Outcomes matter only to a ban that is propagated.
OutcomesFor(audit) == IF audit = "moderator" THEN Outcomes ELSE {AllOk}

\* A user id that was reported before, or the next new one.
KnownOrNext(u) == u <= nextBanId

\* One ban report in a federation with reviewers, flags and configuration
\* changes.
Next ==
    \/ \E g \in Nodes, u \in Users, a \in AuditResults :
          /\ nextBanId <= MaxBans
          /\ KnownOrNext(u)
          /\ \E banOk \in OutcomesFor(a), sendOk \in OutcomesFor(a) :
                on_member_ban(g, u, a, banOk, sendOk)
    \/ \E v \in views, a \in Actors : BanAlertView_accept_button(v, a)
    \/ \E v \in views, a \in Actors : BanAlertView_dismiss_button(v, a)
    \/ \E h \in handlers, ok \in BOOLEAN : BanAlertView_finish(h, ok)
    \/ \E g \in Nodes, u \in Users, a \in Actors : KnownOrNext(u) /\ flag(g, u, a)
    \/ \E a \in Actors : review(a)
    \/ \E f \in reviewViews, a \in Actors : ReviewView_accept_button(f, a)
    \/ \E f \in reviewViews, a \in Actors : ReviewView_reject_button(f, a)
    \/ \E g \in Nodes : cfgOps < MaxConfig /\ on_guild_join(g)
    \/ \E g \in Nodes : cfgOps < MaxConfig /\ on_guild_remove(g)
    \/ \E g \in Nodes, c \in BOOLEAN, ab \in BOOLEAN : cfgOps < MaxConfig /\ save_preferences(g, c, ab)
    \/ \E g \in Nodes : cfgOps < MaxConfig /\ toggle_auto_ban(g)
    \/ \E s \in Nodes : cfgOps < MaxConfig /\ strike(s)

Spec == Init /\ [][Next]_vars

\* Many ban reports over time: the rate limiter and the dedup window.
\* Server 3 is set up or has no servers row.  Server 1 reports user 1 or the
\* next new user; server 2 reports user 1 only, and only while the rate
\* limiter holds fewer than MaxOther of its timestamps; server 3 reports only
\* while it has no row; every guild.ban and channel.send succeeds.
IngestOrigins == {1, 2, 3}

HeldBy(g) == IF g \in DOMAIN server_bans THEN Len(server_bans[g]) ELSE 0

InitIngest ==
    /\ Init
    /\ 3 \in guilds
    /\ 3 \in DOMAIN servers => (servers[3].alert_channel /\ servers[3].blocked_servers = {})

NextIngest ==
    \/ \E d \in TickSteps : Tick(d)
    \/ \E g \in IngestOrigins, u \in {1, nextBanId} :
          /\ nextBanId <= MaxIngestBans
          /\ g # 1 => (u = 1 /\ HeldBy(g) < MaxOther)
          /\ g = 3 => 3 \notin DOMAIN servers
          /\ on_member_ban(g, u, "moderator", AllOk, AllOk)
    \/ \E s \in IngestOrigins \ {3} : cfgOps < MaxConfig /\ strike(s)

SpecIngest == InitIngest /\ [][NextIngest]_vars

\* Ban reports with every outcome of guild.ban and channel.send, from origins
\* whose integrity is just below, at and far above the auto-ban threshold.
\* Server 1 starts at 50 or 100, server 2 (auto-ban on) at 50, server 3 at 49;
\* the dashboard may switch a server's auto-ban, the owner may strike one.
OriginIntegrities == {50, 100}

InitFanOut ==
    /\ now = 0 /\ ticks = 0 /\ cfgOps = 0
    /\ ingests = {}
    /\ AltsInit
    /\ guilds = {1, 2, 3}
    /\ \E i1 \in OriginIntegrities :
          servers = [n \in Nodes |->
                        CASE n = 1 -> ServerRow(i1, FALSE, FALSE, TRUE, {})
                          [] n = 2 -> ServerRow(50, FALSE, TRUE, TRUE, {})
                          [] n = 3 -> ServerRow(49, FALSE, FALSE, TRUE, {})]
    /\ bans = <<>>
    /\ nextBanId = 1
    /\ ban_actions = <<>>
    /\ server_bans = <<>>
    /\ views = {} /\ reviewViews = {} /\ handlers = {}
    /\ notified = {} /\ enforced = {}
    /\ lastOp = Op("init", 0, 0, 0, 0, "", 0)

NextFanOut ==
    \/ \E g \in Nodes, banOk \in Outcomes, sendOk \in Outcomes :
          /\ nextBanId <= MaxFanOutBans
          /\ on_member_ban(g, nextBanId, "moderator", banOk, sendOk)
    \/ \E g \in Nodes : cfgOps < MaxConfig /\ toggle_auto_ban(g)
    \/ \E s \in Nodes : cfgOps < MaxConfig /\ strike(s)

SpecFanOut == InitFanOut /\ [][NextFanOut]_vars

\* Ban reports whose handler runs stretch by stretch, while the bot is
\* removed from guilds and joins them.  A report starts only while fewer than
\* MaxBans reports have passed the rate limiter.
NextRace ==
    \/ \E g \in Nodes, u \in Users :
          /\ KnownOrNext(u)
          /\ HeldBy(1) + HeldBy(2) + HeldBy(3) < MaxBans
          /\ Cardinality(ingests) < MaxInflight
          /\ ingest_start(g, u)
    \/ \E i \in ingests, a \in AuditResults : ingest_audit(i, a)
    \/ \E i \in ingests : ingest_dedup(i)
    \/ \E i \in ingests : nextBanId <= MaxBans /\ ingest_insert(i)
    \/ \E i \in ingests : ingest_integrity(i)
    \/ \E i \in ingests, banOk \in Outcomes, sendOk \in Outcomes : ingest_fanout(i, banOk, sendOk)
    \/ \E g \in Nodes : cfgOps < MaxConfig /\ on_guild_remove(g)
    \/ \E g \in Nodes : cfgOps < MaxConfig /\ on_guild_join(g)

SpecRace == Init /\ [][NextRace]_vars

\* Reports of the ban of user 1, by any server, whose handlers run stretch by
\* stretch next to each other.
NextDedupRace ==
    \/ \E g \in Nodes :
          /\ HeldBy(1) + HeldBy(2) + HeldBy(3) < MaxDedupReports
          /\ Cardinality(ingests) < MaxDedupInflight
          /\ ingest_start(g, 1)
    \/ \E i \in ingests : ingest_audit(i, "moderator")
    \/ \E i \in ingests : ingest_dedup(i)
    \/ \E i \in ingests : ingest_insert(i)
    \/ \E i \in ingests : ingest_integrity(i)
    \/ \E i \in ingests, banOk \in {AllOk, NoneOk} : ingest_fanout(i, banOk, AllOk)

SpecDedupRace == Init /\ [][NextDedupRace]_vars

\* Server 1 reports the bans of new users, its handler running stretch by
\* stretch, while reviewers dismiss the alerts that are open.
NextGateRace ==
    \/ /\ nextBanId <= MaxGateBans
       /\ Cardinality(ingests) < MaxGateInflight
       /\ ingest_start(1, nextBanId)
    \/ \E i \in ingests : ingest_audit(i, "moderator")
    \/ \E i \in ingests : ingest_dedup(i)
    \/ \E i \in ingests : ingest_insert(i)
    \/ \E i \in ingests : ingest_integrity(i)
    \/ \E i \in ingests, banOk \in {AllOk, NoneOk} : ingest_fanout(i, banOk, AllOk)
    \/ \E v \in views : BanAlertView_dismiss_button(v, OWNER)
    \/ \E h \in handlers : BanAlertView_finish(h, TRUE)

SpecGateRace == InitFanOut /\ [][NextGateRace]_vars

\* What the audit log can hold for a ban the bot issued itself: its own
\* entry, nothing the bot may read, or no entry among the last five.
OwnBanAudits == {"bot", "forbidden", "noreason"}

\* A moderator's ban is reported and reviewed; every ban the bot itself
\* carried out in a guild comes back to on_member_ban as that guild's
\* member-ban event.
NextEcho ==
    \/ \E g \in Nodes, banOk \in Outcomes :
          /\ nextBanId <= MaxEchoBans
          /\ on_member_ban(g, 1, "moderator", banOk, AllOk)
    \/ \E v \in views : BanAlertView_accept_button(v, OWNER)
    \/ \E h \in handlers, ok \in BOOLEAN : BanAlertView_finish(h, ok)
    \/ \E e \in enforced, a \in OwnBanAudits :
          /\ e.ok
          /\ on_member_ban(e.guild, e.user_id, a, AllOk, AllOk)

SpecEcho == Init /\ [][NextEcho]_vars

\* One ban report and its review, next to strikes, setups, dashboard toggles
\* and the bot joining and leaving guilds.
NextSetup ==
    \/ \E g \in Nodes, banOk \in {AllOk, NoneOk} :
          /\ nextBanId <= MaxSetupBans
          /\ on_member_ban(g, 1, "moderator", banOk, AllOk)
    \/ \E v \in views : BanAlertView_accept_button(v, OWNER)
    \/ \E v \in views : BanAlertView_dismiss_button(v, OWNER)
    \/ \E h \in handlers : BanAlertView_finish(h, TRUE)
    \/ \E g \in Nodes : cfgOps < MaxSetupOps /\ on_guild_join(g)
    \/ \E g \in Nodes : cfgOps < MaxSetupOps /\ on_guild_remove(g)
    \/ \E g \in Nodes, ab \in BOOLEAN : cfgOps < MaxSetupOps /\ save_preferences(g, TRUE, ab)
    \/ \E g \in Nodes : cfgOps < MaxSetupOps /\ toggle_auto_ban(g)
    \/ \E s \in Nodes : cfgOps < MaxSetupOps /\ strike(s)

SpecSetup == Init /\ [][NextSetup]_vars

\* ------------------------------------------------------------------------
\* Members joining
\* ------------------------------------------------------------------------
\* Server 1 is set up, server 2 has no alert channel.  Server 1 has no
\* alt_settings row, or one of JoinConfigs; user 2 may have been dismissed
\* there.  Members differ in id, account age (7 days to the second, or one
\* second less), avatar, name and display name; one of them is a bot.
JoinGuilds == {1, 2}
JoinThresholds == {75, 100, 125}
CreatedAts == {0 - NewAccountDays * SecondsPerDay, 1 - NewAccountDays * SecondsPerDay}
Names == { <<"A", "l", "t", "_", "U", "s", "e", "r">>,
           <<"b", "o", "b", "1", "2", "3", "4">>,
           <<"a", "l", "t", "1", "2", "3", "4">>,
           <<"b", "o", "b", "1", "2", "3", "4", "5">>,
           <<"b", "o", "b">> }
DisplayNames == { <<"b", "o", "b">>, <<"A", "L", "T">> }

Member(id, bot, created_at, avatar, name, display_name) ==
    [id |-> id, bot |-> bot, created_at |-> created_at, avatar |-> avatar,
     name |-> name, display_name |-> display_name]

Members ==
    { Member(id, FALSE, c, a, n, d) :
          id \in Users, c \in CreatedAts, a \in BOOLEAN, n \in Names, d \in DisplayNames }
    \cup { Member(1, TRUE, 0 - NewAccountDays * SecondsPerDay, FALSE,
                  <<"b", "o", "b">>, <<"b", "o", "b">>) }

\* Every combination of rule switches with the lowest threshold, and every
\* threshold and automatic action with all rules on.
JoinConfigs ==
    { Settings(TRUE, 50, rules, FALSE, FALSE) : rules \in [RuleNames -> BOOLEAN] }
    \cup { Settings(e, t, [r \in RuleNames |-> TRUE], a[1], a[2]) :
              e \in BOOLEAN, t \in JoinThresholds,
              a \in {<<FALSE, FALSE>>, <<TRUE, FALSE>>, <<FALSE, TRUE>>} }

InitJoin ==
    /\ now = 0 /\ ticks = 0 /\ cfgOps = 0
    /\ ingests = {}
    /\ guilds = JoinGuilds
    /\ servers = [n \in JoinGuilds |-> ServerRow(DefaultIntegrity, FALSE, FALSE, n = 1, {})]
    /\ bans = <<>>
    /\ nextBanId = 1
    /\ ban_actions = <<>>
    /\ server_bans = <<>>
    /\ views = {} /\ reviewViews = {} /\ handlers = {}
    /\ notified = {} /\ enforced = {}
    /\ lastOp = Op("init", 0, 0, 0, 0, "", 0)
    /\ alt_settings \in {<<>>} \cup {[g \in {1} |-> c] : c \in JoinConfigs}
    /\ alt_dismissed \in {{}, {<<1, 2>>}}
    /\ alt_actions = <<>>
    /\ recent_joins = <<>>
    /\ alt_alerts = <<>>
    /\ alt_enforced = <<>>
    /\ lastJoin = NoJoin
    /\ panels = <<>> /\ alt_clicks = {} /\ alt_disabled = {}

\* The members that join before the last one: two plain users and the bot.
EarlierMembers ==
    { m \in Members : m.bot \/ (/\ m.created_at = 0 - NewAccountDays * SecondsPerDay
                                 /\ m.avatar
                                 /\ m.name = <<"b", "o", "b">>
                                 /\ m.display_name = <<"b", "o", "b">>) }

\* What the platform answers to the kick or ban, to the send of the notice and
\* to the send of the manual alert.  Only the answers the handler can ask for
\* are told apart: without an automatic action there is only the manual
\* alert, and after a failed kick or ban no notice is sent.
JoinAnswers(guild) ==
    IF get_server_settings(guild).auto_kick \/ get_server_settings(guild).auto_ban
    THEN { <<TRUE, TRUE, TRUE>>, <<FALSE, TRUE, TRUE>>, <<FALSE, TRUE, FALSE>>,
           <<TRUE, FALSE, TRUE>>, <<TRUE, FALSE, FALSE>> }
    ELSE { <<TRUE, TRUE, TRUE>>, <<TRUE, TRUE, FALSE>> }

NextJoin ==
    \E guild \in JoinGuilds, member \in Members :
        /\ lastJoin.n < MaxJoins
        /\ lastJoin.n + 1 < MaxJoins => member \in EarlierMembers
        /\ \E ok \in JoinAnswers(guild) : on_member_join(guild, member, ok[1], ok[2], ok[3])

SpecJoin == InitJoin /\ [][NextJoin]_vars

\* The three highest options of ThresholdSelect.
HighThresholds == {150, 175, 200}

\* Guild 1 with all rules on, one of the highest thresholds and each
\* automatic action.
HighConfigs ==
    { Settings(TRUE, t, [r \in RuleNames |-> TRUE], a[1], a[2]) :
          t \in HighThresholds,
          a \in {<<FALSE, FALSE>>, <<TRUE, FALSE>>, <<FALSE, TRUE>>} }

InitHigh ==
    /\ now = 0 /\ ticks = 0 /\ cfgOps = 0
    /\ ingests = {}
    /\ guilds = JoinGuilds
    /\ servers = [n \in JoinGuilds |-> ServerRow(DefaultIntegrity, FALSE, FALSE, n = 1, {})]
    /\ bans = <<>>
    /\ nextBanId = 1
    /\ ban_actions = <<>>
    /\ server_bans = <<>>
    /\ views = {} /\ reviewViews = {} /\ handlers = {}
    /\ notified = {} /\ enforced = {}
    /\ lastOp = Op("init", 0, 0, 0, 0, "", 0)
    /\ alt_settings \in {[g \in {1} |-> c] : c \in HighConfigs}
    /\ alt_dismissed = {}
    /\ alt_actions = <<>>
    /\ recent_joins = <<>>
    /\ alt_alerts = <<>>
    /\ alt_enforced = <<>>
    /\ lastJoin = NoJoin
    /\ panels = <<>> /\ alt_clicks = {} /\ alt_disabled = {}

SpecHigh == InitHigh /\ [][NextJoin]_vars

\* ------------------------------------------------------------------------
\* Settings panels
\* ------------------------------------------------------------------------
\* Server 1 starts without an alt_settings row.  Up to MaxPanels panels are
\* opened on it, at any time, and clicked in any order; a save may be
\* overtaken by later clicks and by the saves of the other panel.
SettingsRules == {"alt_name", "quick_join"}
SettingsThresholds == {50, 200}

InitSettings ==
    /\ InitJoin
    /\ alt_settings = <<>>
    /\ alt_dismissed = {}

NextSettings ==
    \/ \E actor \in Actors :
          /\ Len(panels) < MaxPanels
          /\ alt_settings_panel(1, actor)
    \/ \E p \in DOMAIN panels, actor \in Actors :
          /\ PanelEdits(panels) < MaxEdits
          /\ \/ AltSettings_toggle_alt_system(p, actor)
             \/ \E rule \in SettingsRules : AltSettings_toggle_rule(p, rule, actor)
             \/ AltSettings_toggle_auto_kick(p, actor)
             \/ AltSettings_toggle_auto_ban(p, actor)
             \/ \E value \in SettingsThresholds : ThresholdSelect_callback(p, value, actor)
    \/ \E p \in DOMAIN panels : AltSettings_save_settings(p)

SpecSettings == InitSettings /\ [][NextSettings]_vars

\* ------------------------------------------------------------------------
\* Alerts under review
\* ------------------------------------------------------------------------
\* Servers 1 and 2 are set up and have no alt_settings row.  Users 1 and 2
\* join either server, as a young account without avatar named Alt_User
\* (score 110) or as an old account with avatar named bob (score 0, or 25
\* after a recent other join); administrators click the buttons of the
\* alerts, and a settings panel of server 1 is opened and clicked.
ReviewMembers ==
    { m \in Members :
        /\ ~m.bot
        /\ m.display_name = <<"b", "o", "b">>
        /\ \/ /\ m.name = <<"A", "l", "t", "_", "U", "s", "e", "r">>
              /\ ~m.avatar
              /\ m.created_at = 1 - NewAccountDays * SecondsPerDay
           \/ /\ m.name = <<"b", "o", "b">>
              /\ m.avatar
              /\ m.created_at = 0 - NewAccountDays * SecondsPerDay }

InitReview ==
    /\ now = 0 /\ ticks = 0 /\ cfgOps = 0
    /\ ingests = {}
    /\ AltsInit
    /\ guilds = JoinGuilds
    /\ servers = [n \in JoinGuilds |-> ServerRow(DefaultIntegrity, FALSE, FALSE, TRUE, {})]
    /\ bans = <<>>
    /\ nextBanId = 1
    /\ ban_actions = <<>>
    /\ server_bans = <<>>
    /\ views = {} /\ reviewViews = {} /\ handlers = {}
    /\ notified = {} /\ enforced = {}
    /\ lastOp = Op("init", 0, 0, 0, 0, "", 0)

NextReview ==
    \/ \E guild \in JoinGuilds, member \in ReviewMembers :
          /\ lastJoin.n < MaxReviewJoins
          /\ \E ok \in JoinAnswers(guild) : on_member_join(guild, member, ok[1], ok[2], ok[3])
    \/ \E a \in DOMAIN alt_alerts, actor \in Actors :
          /\ Len(alt_actions) + Cardinality(alt_clicks) < MaxAltActions
          /\ \/ AltDetectionView_kick_button(a, actor)
             \/ AltDetectionView_ban_button(a, actor)
             \/ AltDetectionView_dismiss_button(a, actor)
    \/ \E c \in alt_clicks, actOk \in BOOLEAN : AltDetectionView_finish(c, actOk)
    \/ /\ Len(panels) < MaxReviewPanels
       /\ alt_settings_panel(1, OWNER)
    \/ \E p \in DOMAIN panels :
          /\ PanelEdits(panels) < MaxReviewEdits
          /\ \/ AltSettings_toggle_alt_system(p, OWNER)
             \/ AltSettings_toggle_auto_kick(p, OWNER)
             \/ ThresholdSelect_callback(p, 50, OWNER)
    \/ \E p \in DOMAIN panels : AltSettings_save_settings(p)

SpecReview == InitReview /\ [][NextReview]_vars

\* ------------------------------------------------------------------------
\* The join window
\* ------------------------------------------------------------------------
\* Servers 1 and 2 are set up and have no alt_settings row.  Users 1 and 2
\* join either server as old accounts with avatar named bob, so that only the
\* quick-join rule can score; the clock advances between joins, and the sweep
\* runs at any time.
WindowSteps == {30, 90, 150, 510, 600}

WindowMembers ==
    { m \in ReviewMembers : m.name = <<"b", "o", "b">> }

NextWindow ==
    \/ \E guild \in JoinGuilds, member \in WindowMembers :
          /\ lastJoin.n < MaxWindowJoins
          /\ on_member_join(guild, member, TRUE, TRUE, TRUE)
    \/ \E d \in WindowSteps : Tick(d)
    \/ check_expired_joins

SpecWindow == InitReview /\ [][NextWindow]_vars

\* The clock step that takes two reports of a user out of each other's
\* duplicate window in two steps.
JoinTick == 181

\* The join alerts sent so far.
JoinAlerts == {n \in notified : n.kind = "join"}

\* Ban reports about user 1, each outside the duplicate window of the one
\* before, reviewers, strikes and the clock, while users join the servers.
NextBanJoin ==
    \/ \E g \in Nodes, banOk \in {AllOk, NoneOk} :
          /\ nextBanId <= MaxJoinBans
          /\ ~existing_ban_from_any_server(bans, 1, now)
          /\ on_member_ban(g, 1, "moderator", banOk, AllOk)
    \/ \E v \in views : BanAlertView_accept_button(v, OWNER)
    \/ \E h \in handlers : BanAlertView_finish(h, TRUE)
    \/ \E s \in Nodes : cfgOps < MaxConfig /\ strike(s)
    \/ Tick(JoinTick)
    \/ \E g \in Nodes, u \in Users, bot \in BOOLEAN, sendOk \in BOOLEAN :
          /\ Cardinality(JoinAlerts) < MaxJoinAlerts
          /\ Bans_on_member_join(g, u, bot, sendOk)

SpecBanJoin == Init /\ [][NextBanJoin]_vars

\* ========================================================================
\* Properties
\* ========================================================================
Terminal == {"Accepted", "Dismissed", "Rejected"}

\* The step just taken is an Accept or Dismiss click that passed the
\* permission checks.
ResolveStep == lastOp'.op \in {"accept", "dismiss"} /\ MayResolve(lastOp'.arg)

DecisionOf(op) == IF op = "accept" THEN "Accepted" ELSE "Dismissed"

IsPending(b) == b \in DOMAIN bans /\ bans[b].status = "Pending"

\* C1: an Accept or Dismiss of an event whose status is not Pending changes
\* neither the event table, nor any server's integrity, nor the action log.
C1_ResolveOfResolvedIsNoOp ==
    [][(ResolveStep /\ ~IsPending(lastOp'.ban))
          => UNCHANGED <<bans, servers, ban_actions>>]_vars

\* C2: while one Accept/Dismiss callback for an event has committed and is
\* still running, a second Accept/Dismiss for the same event changes neither
\* the event, nor any server's integrity, nor the action log.
C2_InterleavedResolveIsNoOp ==
    [][(ResolveStep /\ \E h \in handlers : h.view.ban_id = lastOp'.ban)
          => UNCHANGED <<bans, servers, ban_actions>>]_vars

\* C3: a status Accepted, Dismissed or Rejected never changes again; Pending
\* moves only to Accepted or Dismissed, Review only to Accepted or Rejected.
C3_StatusMonotonic ==
    [][\A b \in DOMAIN bans \cap DOMAIN bans' :
          /\ bans[b].status \in Terminal => bans'[b].status = bans[b].status
          /\ bans[b].status = "Pending"
                => bans'[b].status \in {"Pending", "Accepted", "Dismissed"}
          /\ bans[b].status = "Review"
                => bans'[b].status \in {"Review", "Accepted", "Rejected"}]_vars

\* C4: every server's integrity is an integer in 0..100; an accept or an
\* automatic acceptance at 100 leaves the origin at 100, a dismissal at 0
\* leaves it at 0.
C4_IntegrityInRange ==
    /\ \A n \in DOMAIN servers : servers[n].integrity \in 0..100
    /\ (/\ lastOp.op \in {"accept", "on_member_ban"}
        /\ lastOp.pre = 100
        /\ lastOp.origin \in DOMAIN servers) => servers[lastOp.origin].integrity = 100
    /\ (/\ lastOp.op = "dismiss"
        /\ lastOp.pre = 0
        /\ lastOp.origin \in DOMAIN servers) => servers[lastOp.origin].integrity = 0

\* A dismissal that passed the checks found the origin at 0 and left it at 0.
C4_Witness ==
    /\ lastOp.op = "dismiss" /\ MayResolve(lastOp.arg)
    /\ lastOp.pre = 0
    /\ lastOp.origin \in DOMAIN servers
    /\ servers[lastOp.origin].integrity = 0
    /\ \E i \in 1..Len(ban_actions) :
          ban_actions[i].ban_id = lastOp.ban /\ ban_actions[i].action = "Dismissed"

\* C5: an Accept (Dismiss) of a Pending event, in one step, sets its status
\* to Accepted (Dismissed), appends exactly one action record (event, decision,
\* actor, time), sets the origin's integrity r to min(r+1, 100) (max(r-1, 0)),
\* and changes no other event and no other server; the step itself bans
\* nobody, and the rest of a Dismiss callback bans nobody either.
C5_ResolveOfPending ==
    [][/\ (ResolveStep /\ IsPending(lastOp'.ban)) =>
            LET b == lastOp'.ban
                o == bans[b].origin_server_id
                r == servers[o].integrity
            IN  /\ DOMAIN bans' = DOMAIN bans
                /\ bans'[b] = [bans[b] EXCEPT !.status = DecisionOf(lastOp'.op)]
                /\ \A c \in DOMAIN bans \ {b} : bans'[c] = bans[c]
                /\ ban_actions' = Append(ban_actions,
                                     [ban_id |-> b, action |-> DecisionOf(lastOp'.op),
                                      by_user_id |-> lastOp'.arg, timestamp |-> now])
                /\ DOMAIN servers' = DOMAIN servers
                /\ servers'[o] =
                      [servers[o] EXCEPT !.integrity =
                          IF lastOp'.op = "accept"
                          THEN (IF r + 1 <= 100 THEN r + 1 ELSE 100)
                          ELSE (IF r - 1 >= 0 THEN r - 1 ELSE 0)]
                /\ \A n \in DOMAIN servers \ {o} : servers'[n] = servers[n]
                /\ enforced' = enforced
       /\ (lastOp'.op = "finish" /\ lastOp'.arg = "dismiss") => enforced' = enforced
      ]_vars

\* The first decision on an event that no peer accepted automatically: a
\* Dismiss that found it Pending.
C5_Witness ==
    /\ lastOp.op = "dismiss" /\ MayResolve(lastOp.arg)
    /\ ban_actions = <<[ban_id |-> lastOp.ban, action |-> "Dismissed",
                        by_user_id |-> lastOp.arg, timestamp |-> now]>>
    /\ ~\E e \in enforced : e.ban_id = lastOp.ban /\ e.ok
    /\ lastOp.ban \in DOMAIN bans
    /\ bans[lastOp.ban].status = "Dismissed"
    /\ servers[lastOp.origin].integrity = lastOp.pre - 1

\* The step just taken is an on_member_ban event.
IngestStep == lastOp'.op = "on_member_ban"

\* The reporting server has a servers row and is not blacklisted.
OriginValid(g) == g \in DOMAIN servers /\ ~servers[g].blacklisted

\* An event for user u was created less than 5 minutes ago.
DuplicateOf(u) ==
    \E b \in DOMAIN bans : bans[b].user_id = u /\ now - bans[b].flagged_at < 300

HeldTimestamps(g) == IF g \in DOMAIN server_bans THEN server_bans[g] ELSE <<>>

\* The timestamps of g that are less than 180 s old.
YoungerThanWindow(g) == SelectSeq(HeldTimestamps(g), LAMBDA ts : now - ts < 180)

\* The timestamps of g that are not older than 180 s.
NotOlderThanWindow(g) == SelectSeq(HeldTimestamps(g), LAMBDA ts : now - ts <= 180)

\* C6: a ban report for a user for whom an event was created less than 5
\* minutes ago (by this or any other server) creates no event; a report that
\* is no duplicate, comes with a moderator's reason from a valid origin and is
\* admitted by the rate limiter creates exactly one new event (so a report
\* 5 minutes and 1 second after the first does); no two events for one user
\* are created less than 5 minutes apart.
C6_DedupWindow ==
    [][IngestStep =>
         LET u == lastOp'.user
             g == lastOp'.guild
         IN  /\ DuplicateOf(u) => (bans' = bans /\ nextBanId' = nextBanId)
             /\ (/\ ~DuplicateOf(u)
                 /\ OriginValid(g)
                 /\ lastOp'.arg = "moderator"
                 /\ Len(YoungerThanWindow(g)) < 5)
                   => /\ DOMAIN bans' = DOMAIN bans \cup {nextBanId}
                      /\ nextBanId \notin DOMAIN bans
                      /\ bans'[nextBanId].user_id = u
                      /\ bans'[nextBanId].origin_server_id = g
                      /\ bans'[nextBanId].flagged_at = now
                      /\ \A b \in DOMAIN bans : bans'[b] = bans[b]
             /\ \A b1, b2 \in DOMAIN bans' :
                   (b1 < b2 /\ bans'[b1].user_id = bans'[b2].user_id)
                      => bans'[b2].flagged_at - bans'[b1].flagged_at >= 300
      ]_vars

\* Server 1 reported user 1 twice, 5 minutes and 1 second apart, and both
\* reports became events.
C6_Witness ==
    /\ lastOp.op = "on_member_ban" /\ lastOp.guild = 1 /\ lastOp.user = 1
    /\ \E b1, b2 \in DOMAIN bans :
          /\ bans[b1].user_id = 1 /\ bans[b1].origin_server_id = 1
          /\ bans[b2].user_id = 1 /\ bans[b2].origin_server_id = 1
          /\ bans[b2].flagged_at = bans[b1].flagged_at + 301
          /\ bans[b2].flagged_at = now

\* The instants at which an event was created, and the present.
Instants == {bans[b].flagged_at : b \in DOMAIN bans} \cup {now}

\* The events of origin o created in the 180 s up to t, i.e. in (t-180, t].
CreatedInWindow(o, t) ==
    {b \in DOMAIN bans : /\ bans[b].origin_server_id = o
                         /\ bans[b].flagged_at > t - 180
                         /\ bans[b].flagged_at <= t}

\* C7: for every origin and every instant t, at most 5 events of that origin
\* were created in the 180 seconds up to t, the window (t-180, t].  (A window
\* ending between two creations holds no more than the window ending at the
\* earlier of them, so t ranges over the creation instants and the present.)
C7_SlidingWindowBound ==
    \A o \in Nodes, t \in Instants : Cardinality(CreatedInWindow(o, t)) <= 5

\* Server 1 has created 5 events in the current window and its report of a
\* sixth, new user was dropped.
C7_Witness ==
    /\ lastOp.op = "on_member_ban" /\ lastOp.guild = 1 /\ lastOp.arg = "moderator"
    /\ OriginValid(1)
    /\ Cardinality(CreatedInWindow(1, now)) = 5
    /\ ~\E b \in DOMAIN bans : bans[b].user_id = lastOp.user
    /\ lastOp.ban = nextBanId

\* C8 as stated: the limiter keeps the timestamps that are not older than
\* 180 s (age <= 180), admits when fewer than 5 of them remain, and otherwise
\* appends nothing.
C8_PurgeOlderThanWindow ==
    [][(IngestStep /\ OriginValid(lastOp'.guild) /\ lastOp'.arg = "moderator") =>
         LET g    == lastOp'.guild
             kept == NotOlderThanWindow(g)
         IN  /\ DOMAIN server_bans' = DOMAIN server_bans \cup {g}
             /\ \A n \in DOMAIN server_bans \ {g} : server_bans'[n] = server_bans[n]
             /\ server_bans'[g] = IF Len(kept) < 5 THEN Append(kept, now) ELSE kept
      ]_vars

\* C8, amended: the limiter, consulted for server g, leaves every other
\* server's timestamps alone, keeps of g's timestamps exactly those less than
\* 180 s old (one that is exactly 180 s old is discarded), appends the present
\* time if fewer than 5 remain and appends nothing otherwise; an event is
\* created only when it appended; it never holds more than 5 timestamps, and
\* it admits again as soon as 180 s have passed since the oldest one it held.
C8_PurgeAtWindow ==
    [][(IngestStep /\ OriginValid(lastOp'.guild) /\ lastOp'.arg = "moderator") =>
         LET g    == lastOp'.guild
             old  == HeldTimestamps(g)
             kept == YoungerThanWindow(g)
         IN  /\ DOMAIN server_bans' = DOMAIN server_bans \cup {g}
             /\ \A n \in DOMAIN server_bans \ {g} : server_bans'[n] = server_bans[n]
             /\ server_bans'[g] = IF Len(kept) < 5 THEN Append(kept, now) ELSE kept
             /\ Len(server_bans'[g]) <= 5
             /\ nextBanId' # nextBanId => Len(kept) < 5
             /\ (old # <<>> /\ now - old[1] >= 180)
                   => server_bans'[g][Len(server_bans'[g])] = now
      ]_vars

\* Server 1 created 5 events at one instant, and exactly 180 s later a sixth:
\* the limiter discarded the five timestamps and holds only the new one.
C8_Witness ==
    /\ lastOp.op = "on_member_ban" /\ lastOp.guild = 1
    /\ Cardinality({b \in DOMAIN bans : /\ bans[b].origin_server_id = 1
                                        /\ bans[b].flagged_at = now - 180}) = 5
    /\ \E b \in DOMAIN bans : bans[b].origin_server_id = 1 /\ bans[b].flagged_at = now
    /\ 1 \in DOMAIN server_bans
    /\ server_bans[1] = <<now>>

\* C9: a ban report whose server has no row or is blacklisted, or whose
\* server holds 5 admissions less than 180 s old, or whose user has an event
\* less than 5 minutes old, creates no event, sends no alert or notice, bans
\* nobody, creates no alert view and changes no server row.
C9_RejectedIngest ==
    [][(/\ IngestStep
        /\ \/ ~OriginValid(lastOp'.guild)
           \/ Len(YoungerThanWindow(lastOp'.guild)) >= 5
           \/ DuplicateOf(lastOp'.user))
          => UNCHANGED <<bans, nextBanId, servers, views, notified, enforced>>
      ]_vars

\* A blacklisted server reported, with a moderator's reason, a user nobody
\* had reported before.
C9_Witness ==
    /\ lastOp.op = "on_member_ban" /\ lastOp.arg = "moderator"
    /\ lastOp.guild \in DOMAIN servers
    /\ servers[lastOp.guild].blacklisted
    /\ ~\E b \in DOMAIN bans : bans[b].user_id = lastOp.user
    /\ HeldTimestamps(lastOp.guild) = <<>>
    /\ lastOp.ban = nextBanId

\* The step just taken is an on_member_ban event that created an event.
FanOutStep == IngestStep /\ nextBanId' = nextBanId + 1

\* Something of the fan-out of this step is directed at server n: an alert, a
\* notice, a guild.ban, or an alert view.
DirectedAt(n) ==
    \/ \E x \in notified' \ notified : x.guild = n
    \/ \E e \in enforced' \ enforced : e.guild = n
    \/ \E v \in views' \ views : v.guild = n

\* Server n is the origin o, is blacklisted, has no alert channel, or has o
\* in its blocked_servers.
ExcludedFrom(n, o) ==
    \/ n = o
    \/ /\ n \in DOMAIN servers
       /\ \/ servers[n].blacklisted
          \/ ~servers[n].alert_channel
          \/ o \in servers[n].blocked_servers

\* The other servers the bot is in that have a servers row.
Eligible(o) == {n \in guilds \cap DOMAIN servers : ~ExcludedFrom(n, o)}

\* The bans the fan-out of this step attempted in guild n.
Attempts(n) == {e \in enforced' \ enforced : e.guild = n /\ e.ban_id = nextBanId}

\* The alerts with Accept/Dismiss buttons the fan-out of this step sent to n.
Requests(n) ==
    {x \in notified' \ notified : x.guild = n /\ x.ban_id = nextBanId /\ x.kind = "alert"}

\* C10 as stated: the fan-out of an event directs nothing at the origin, a
\* blacklisted server, a server without alert channel or a server blocking
\* the origin, and every other known server gets exactly one of: an
\* automatic-ban attempt, an alert with Accept/Dismiss buttons.
C10_ExactlyOneOf ==
    [][FanOutStep =>
         LET o == lastOp'.guild
         IN  /\ \A n \in Nodes : ExcludedFrom(n, o) => ~DirectedAt(n)
             /\ \A n \in Eligible(o) :
                   \/ Cardinality(Attempts(n)) = 1 /\ Requests(n) = {}
                   \/ Attempts(n) = {} /\ Cardinality(Requests(n)) = 1
      ]_vars

\* C10, amended: the fan-out of an event directs nothing at the origin, a
\* blacklisted server, a server without alert channel or a server blocking
\* the origin; every other known server gets at most one automatic-ban attempt
\* and at most one alert with buttons, and at least one of the two; it gets
\* both exactly when the automatic-ban attempt failed.
C10_FanOutTargets ==
    [][FanOutStep =>
         LET o == lastOp'.guild
         IN  /\ \A n \in Nodes : ExcludedFrom(n, o) => ~DirectedAt(n)
             /\ \A n \in Eligible(o) :
                   /\ Cardinality(Attempts(n)) <= 1
                   /\ Cardinality(Requests(n)) <= 1
                   /\ Attempts(n) # {} \/ Requests(n) # {}
                   /\ (Attempts(n) # {} /\ Requests(n) # {})
                         <=> (\E e \in Attempts(n) : ~e.ok)
      ]_vars

\* Server 1 reported a user; server 3, which blocks server 1, got nothing;
\* server 2's automatic ban failed and it got the alert with buttons as well.
C10_Witness ==
    /\ lastOp.op = "on_member_ban" /\ lastOp.guild = 1
    /\ lastOp.ban \in DOMAIN bans
    /\ 3 \in guilds \cap DOMAIN servers
    /\ 1 \in servers[3].blocked_servers
    /\ ~\E x \in notified : x.guild = 3
    /\ ~\E e \in enforced : e.guild = 3
    /\ \E e \in enforced : e.guild = 2 /\ e.ban_id = lastOp.ban /\ ~e.ok
    /\ \E x \in notified : x.guild = 2 /\ x.ban_id = lastOp.ban /\ x.kind = "alert"

\* C11: in the fan-out of an event, a guild.ban is attempted at an eligible
\* peer exactly when the peer's auto_ban is on and the origin's integrity is
\* at least 50 (50 bans, 49 does not); every other eligible peer is sent an
\* alert with Accept/Dismiss buttons for that event, and the view it gets,
\* when the send succeeds, carries the event's id.
C11_AutoBanDecision ==
    [][FanOutStep =>
         LET o == lastOp'.guild
         IN  \A n \in Eligible(o) :
                LET auto == servers[n].auto_ban /\ servers[o].integrity >= 50
                IN  /\ Attempts(n) # {} <=> auto
                    /\ ~auto =>
                          /\ Requests(n) # {}
                          /\ \A x \in Requests(n) :
                                x.ok => \E v \in views' \ views :
                                           /\ v.guild = n
                                           /\ v.ban_id = nextBanId
                                           /\ v.origin_server_id = o
      ]_vars

\* Server 3, at integrity 49, reported a user: server 2 (auto-ban on) got the
\* alert with buttons and no ban.  Server 1, at integrity 50, then reported
\* another user: a ban was attempted in server 2.
C11_Witness ==
    /\ lastOp.op = "on_member_ban" /\ lastOp.guild = 1 /\ lastOp.pre = 50
    /\ lastOp.ban \in DOMAIN bans
    /\ servers[2].auto_ban /\ ~servers[2].blacklisted
    /\ servers[3].integrity = 49
    /\ \E e \in enforced : e.guild = 2 /\ e.ban_id = lastOp.ban
    /\ \E b \in DOMAIN bans :
          /\ bans[b].origin_server_id = 3
          /\ \E x \in notified : x.guild = 2 /\ x.ban_id = b /\ x.kind = "alert"
          /\ ~\E e \in enforced : e.guild = 2 /\ e.ban_id = b

\* The peers in which the fan-out of this step banned the user.
AutoBanned == {n \in Nodes : \E e \in Attempts(n) : e.ok}

\* The auto-ban notices the fan-out of this step sent to n.
Notices(n) ==
    {x \in notified' \ notified : x.guild = n /\ x.ban_id = nextBanId /\ x.kind = "autoban"}

\* C12: in the fan-out of an event, every peer in which the automatic ban
\* succeeded is sent one auto-ban notice and no alert with buttons; with k such
\* peers the origin's integrity r becomes min(r + k, 100) (one increment per
\* peer), and the event is Accepted if k >= 1 and Pending if k = 0.
C12_AutoBanSuccess ==
    [][FanOutStep =>
         LET o == lastOp'.guild
             k == Cardinality(AutoBanned)
             r == servers[o].integrity
         IN  /\ \A n \in AutoBanned :
                   /\ Cardinality(Notices(n)) = 1
                   /\ Requests(n) = {}
                   /\ \A v \in views' \ views : v.guild # n
             /\ \A n \in Nodes \ AutoBanned : Notices(n) = {}
             /\ bans'[nextBanId].status = IF k >= 1 THEN "Accepted" ELSE "Pending"
             /\ servers'[o].integrity = IF r + k <= 100 THEN r + k ELSE 100
             /\ \A n \in DOMAIN servers \ {o} : servers'[n] = servers[n]
      ]_vars

\* Server 1, at integrity 50, reported a user, and the automatic ban succeeded
\* in servers 2 and 3: the event is Accepted and server 1 is at 52.
C12_Witness ==
    /\ lastOp.op = "on_member_ban" /\ lastOp.guild = 1 /\ lastOp.pre = 50
    /\ lastOp.ban \in DOMAIN bans
    /\ bans[lastOp.ban].status = "Accepted"
    /\ servers[1].integrity = 52
    /\ \A n \in {2, 3} :
          /\ \E e \in enforced : e.guild = n /\ e.ban_id = lastOp.ban /\ e.ok
          /\ \E x \in notified : x.guild = n /\ x.ban_id = lastOp.ban /\ x.kind = "autoban"

\* The peers in which the fan-out of this step tried to ban the user and
\* guild.ban failed.
AutoBanFailed == {n \in Nodes : \E e \in Attempts(n) : ~e.ok}

\* C13: in the fan-out of an event, every peer in which the automatic ban
\* failed is sent exactly one alert with Accept/Dismiss buttons for that event
\* (and gets the view when the send succeeds) and no auto-ban notice; the
\* failed attempts change nothing else: if no automatic ban succeeded the
\* event stays Pending and no server row changes.
C13_AutoBanFallback ==
    [][FanOutStep =>
         /\ \A n \in AutoBanFailed :
               /\ Cardinality(Requests(n)) = 1
               /\ Notices(n) = {}
               /\ \A x \in Requests(n) :
                     x.ok => \E v \in views' \ views :
                                v.guild = n /\ v.ban_id = nextBanId /\ ~v.disabled
         /\ AutoBanned = {} =>
               /\ bans'[nextBanId].status = "Pending"
               /\ servers' = servers
      ]_vars

\* Server 1 reported a user; the automatic ban failed in server 2, which got
\* the alert with buttons; the event is Pending and server 1's integrity is
\* what it was.
C13_Witness ==
    /\ lastOp.op = "on_member_ban" /\ lastOp.guild = 1
    /\ lastOp.ban \in DOMAIN bans
    /\ bans[lastOp.ban].status = "Pending"
    /\ servers[1].integrity = lastOp.pre
    /\ \E e \in enforced : e.guild = 2 /\ e.ban_id = lastOp.ban /\ ~e.ok
    /\ \E x \in notified : x.guild = 2 /\ x.ban_id = lastOp.ban /\ x.kind = "alert" /\ x.ok
    /\ \E v \in views : v.guild = 2 /\ v.ban_id = lastOp.ban

\* A channel.send of the fan-out of this step failed.
DeliveryFailed == \E x \in notified' \ notified : ~x.ok

\* C14: the fan-out of an event is one run of send_ban_alerts; when a
\* channel.send fails in it, the run still reaches every eligible peer (each
\* gets its guild.ban attempt or its alert with buttons), and the failed send
\* changes neither the event's status nor any integrity: the event is Accepted
\* exactly if some automatic ban succeeded, the origin's integrity rises by
\* the number of successful automatic bans (capped at 100), and no other
\* event or server row changes.
C14_DeliveryFailureIsolated ==
    [][(FanOutStep /\ DeliveryFailed) =>
         LET o == lastOp'.guild
             k == Cardinality(AutoBanned)
             r == servers[o].integrity
         IN  /\ \A n \in Eligible(o) : Attempts(n) # {} \/ Requests(n) # {}
             /\ (bans'[nextBanId].status = "Accepted") <=> (k >= 1)
             /\ \A b \in DOMAIN bans : bans'[b] = bans[b]
             /\ servers' = [servers EXCEPT ![o].integrity =
                                IF r + k <= 100 THEN r + k ELSE 100]
      ]_vars

\* Server 1 reported a user; the send of the alert to server 2 failed, and
\* server 3, next in the loop, got its alert and the view with buttons.
C14_Witness ==
    /\ lastOp.op = "on_member_ban" /\ lastOp.guild = 1
    /\ lastOp.ban \in DOMAIN bans
    /\ \E x \in notified : x.guild = 2 /\ x.ban_id = lastOp.ban /\ ~x.ok
    /\ \E x \in notified : x.guild = 3 /\ x.ban_id = lastOp.ban /\ x.kind = "alert" /\ x.ok
    /\ \E v \in views : v.guild = 3 /\ v.ban_id = lastOp.ban

\* Event b changed its status in this step (an event created in this step
\* with a status other than the one it is inserted with has changed it too).
StatusChanged(b) ==
    IF b \in DOMAIN bans
    THEN bans'[b].status # bans[b].status
    ELSE bans'[b].status \notin {"Pending", "Review"}

\* C15: every step that changes an event's status - an Accept or Dismiss
\* button, an automatic ban during fan-out, the owner's Accept or Reject of a
\* flag - appends exactly one row to ban_actions, for that event and with
\* the new status as its action.
C15_EveryTransitionLogged ==
    [][\A b \in DOMAIN bans' :
          StatusChanged(b) =>
             /\ Len(ban_actions') = Len(ban_actions) + 1
             /\ ban_actions'[Len(ban_actions')].ban_id = b
             /\ ban_actions'[Len(ban_actions')].action = bans'[b].status
      ]_vars

\* C16: a /flag that passes the maintenance and permission checks inserts
\* exactly one event, for the flagged user and the guild of the command, with
\* status 'Review' (the stored name of UnderReview); it changes no other
\* event, sends no alert or notice, bans nobody, creates no alert view, writes
\* no action record and changes no server row.
C16_FlagCreatesReviewEvent ==
    [][(lastOp'.op = "flag" /\ MayResolve(lastOp'.arg)) =>
         /\ nextBanId \notin DOMAIN bans
         /\ DOMAIN bans' = DOMAIN bans \cup {nextBanId}
         /\ bans'[nextBanId] = [user_id |-> lastOp'.user,
                                origin_server_id |-> lastOp'.guild,
                                flagged_at |-> now, status |-> "Review"]
         /\ \A b \in DOMAIN bans : bans'[b] = bans[b]
         /\ UNCHANGED <<notified, enforced, views, ban_actions, servers>>
      ]_vars

\* An administrator of server 1 flagged a user while server 2, with auto-ban
\* on, would have been a peer of a ban report: the flag is stored with status
\* 'Review', nothing was sent and nobody was banned.
C16_Witness ==
    /\ lastOp.op = "flag" /\ MayResolve(lastOp.arg) /\ lastOp.guild = 1
    /\ lastOp.ban \in DOMAIN bans
    /\ bans[lastOp.ban].status = "Review"
    /\ bans[lastOp.ban].origin_server_id = 1
    /\ 2 \in DOMAIN servers /\ servers[2].auto_ban /\ servers[2].alert_channel
    /\ notified = {} /\ enforced = {} /\ views = {}
    /\ servers[1].integrity = 100

\* The step just taken is a click on a ReviewView button.
ReviewStep == lastOp'.op \in {"review_Accepted", "review_Rejected"}

\* C17: the status of an event that is 'Review' changes only in a click of
\* the bot owner on that event's ReviewView, Accept giving Accepted and Reject
\* giving Rejected; a click by anybody else changes no event; and no click on
\* a ReviewView changes a server row.
C17_ReviewOnlyByOwner ==
    [][/\ \A b \in DOMAIN bans \cap DOMAIN bans' :
             (bans[b].status = "Review" /\ bans'[b].status # "Review") =>
                /\ ReviewStep
                /\ lastOp'.arg = OWNER
                /\ lastOp'.ban = b
                /\ bans'[b].status = IF lastOp'.op = "review_Accepted"
                                     THEN "Accepted" ELSE "Rejected"
       /\ ReviewStep =>
             /\ servers' = servers
             /\ lastOp'.arg # OWNER => bans' = bans
      ]_vars

\* The owner rejected a flag of server 1: the flag is Rejected, and server 1
\* is at the integrity it started with.
C17_Witness ==
    /\ lastOp.op = "review_Rejected" /\ lastOp.arg = OWNER
    /\ lastOp.ban \in DOMAIN bans
    /\ bans[lastOp.ban].status = "Rejected"
    /\ bans[lastOp.ban].origin_server_id = 1
    /\ servers[1].integrity = 100

\* C18: in every reachable state, the origin of every row of table bans has
\* a row in table servers - also while an on_member_ban of a guild is
\* suspended at an await and the bot is removed from that guild.
C18_EventOriginExists ==
    \A b \in DOMAIN bans : bans[b].origin_server_id \in DOMAIN servers

\* ------------------------------------------------------------------------
\* Risk score of a joining member
\* ------------------------------------------------------------------------
\* The step just taken is a member joining.
JoinStep == lastOp'.op = "on_member_join" /\ lastJoin'.n = lastJoin.n + 1

\* The fixed weight of each rule.
RuleWeight ==
    [new_account |-> 50, no_avatar |-> 30, alt_name |-> 30, default_name |-> 20,
     previous_ban |-> 40, quick_join |-> 25]

\* The name contains "alt", in any mix of upper and lower case.
ContainsAlt(s) ==
    \E i \in 1..(Len(s) - 2) :
        s[i] \in {"a", "A"} /\ s[i + 1] \in {"l", "L"} /\ s[i + 2] \in {"t", "T"}

\* The name is one or more letters followed by exactly four digits.
LettersThenFourDigits(s) ==
    /\ Len(s) >= 5
    /\ \A i \in 1..Len(s) :
          IF i <= Len(s) - 4 THEN s[i] \in UpperCase \cup LowerCase ELSE s[i] \in Digits

\* Another identity joined the node less than two minutes ago.
HasRecentOtherJoin(guild, member) ==
    /\ guild \in DOMAIN recent_joins
    /\ \E i \in 1..Len(recent_joins[guild]) :
          /\ recent_joins[guild][i][1] # member.id
          /\ now - recent_joins[guild][i][2] < QuickJoinWindow

\* The predicate of each rule, for a member joining a guild now.
RulePredicate(r, guild, member) ==
    CASE r = "new_account" -> now - member.created_at < NewAccountDays * SecondsPerDay
      [] r = "no_avatar" -> ~member.avatar
      [] r = "alt_name" -> ContainsAlt(member.name) \/ ContainsAlt(member.display_name)
      [] r = "default_name" -> LettersThenFourDigits(member.name)
      [] r = "previous_ban" -> FALSE
      [] r = "quick_join" -> HasRecentOtherJoin(guild, member)

\* The rules that are enabled in the guild and whose predicate is true.
ExpectedRules(guild, member) ==
    {r \in RuleNames : get_server_settings(guild).rules[r] /\ RulePredicate(r, guild, member)}

RECURSIVE SumWeights(_)
SumWeights(S) ==
    IF S = {} THEN 0
    ELSE LET r == CHOOSE x \in S : TRUE IN RuleWeight[r] + SumWeights(S \ {r})

\* C19: whenever a join is scored, the total is the sum of the fixed weights
\* of exactly the rules that are enabled and whose predicate is true, and the
\* triggered-rule map holds exactly those rules with their weights.
C19_RiskScore ==
    [][(JoinStep /\ lastJoin'.evaluated) =>
          LET expected == ExpectedRules(lastJoin'.guild, lastJoin'.member) IN
          /\ lastJoin'.heat_score = SumWeights(expected)
          /\ lastJoin'.triggered_rules = [r \in expected |-> RuleWeight[r]]]_vars

\* A young account without avatar named Alt_User, all rules on, nobody else
\* joined recently: 50 + 30 + 30 = 110.
C19_Witness ==
    /\ lastJoin.evaluated
    /\ lastJoin.member.name = <<"A", "l", "t", "_", "U", "s", "e", "r">>
    /\ lastJoin.member.display_name = <<"b", "o", "b">>
    /\ get_server_settings(lastJoin.guild).rules = [r \in RuleNames |-> TRUE]
    /\ DOMAIN lastJoin.triggered_rules = {"new_account", "no_avatar", "alt_name"}
    /\ lastJoin.heat_score = 110

\* A join changed what the alt detection sent, enforced or logged.
Emitted ==
    alt_alerts' # alt_alerts \/ alt_enforced' # alt_enforced \/ alt_actions' # alt_actions

\* C20: a join produces an alert, a kick or ban or an action-log entry only if
\* the guild's detection is enabled and the total score is at least the
\* guild's threshold; and a member who is neither a bot nor dismissed, joining
\* a guild with detection enabled and an alert channel, with a score equal to
\* the threshold, does produce one.
C20_EmitOnlyAtThreshold ==
    [][JoinStep =>
          LET g == lastJoin'.guild
              m == lastJoin'.member
              s == get_server_settings(g)
              total == SumWeights(ExpectedRules(g, m))
          IN
          /\ Emitted => (s.enabled /\ total >= s.threshold)
          /\ (/\ ~m.bot /\ s.enabled /\ <<g, m.id>> \notin alt_dismissed
              /\ g \in DOMAIN servers /\ servers[g].alert_channel
              /\ total = s.threshold) => Emitted]_vars

\* A join whose score equals the threshold was answered with an alert or an
\* automatic action.
C20_Witness ==
    /\ lastJoin.evaluated
    /\ lastJoin.heat_score = get_server_settings(lastJoin.guild).threshold
    /\ lastJoin.outcome \in {"alert", "auto-kicked", "auto-banned"}
    /\ Len(alt_alerts) > 0
    /\ alt_alerts[Len(alt_alerts)].user_id = lastJoin.member.id
    /\ alt_alerts[Len(alt_alerts)].heat_score = lastJoin.heat_score

\* ------------------------------------------------------------------------
\* Decision policy of a join
\* ------------------------------------------------------------------------
\* What the join just taken added to the logs of the alt detection.
NewEnforced == SubSeq(alt_enforced', Len(alt_enforced) + 1, Len(alt_enforced'))

NewAlerts == SubSeq(alt_alerts', Len(alt_alerts) + 1, Len(alt_alerts'))

KickAttempts == Cardinality({i \in DOMAIN NewEnforced : NewEnforced[i].action = "kick"})

BanAttempts == Cardinality({i \in DOMAIN NewEnforced : NewEnforced[i].action = "ban"})

DecisionRequests == Cardinality({i \in DOMAIN NewAlerts : NewAlerts[i].kind = "alert"})

\* A member who is not a bot and not dismissed joins a guild whose detection
\* is enabled, with a total score at or above the guild's threshold.
RiskyJoin ==
    /\ JoinStep
    /\ ~lastJoin'.member.bot
    /\ get_server_settings(lastJoin'.guild).enabled
    /\ <<lastJoin'.guild, lastJoin'.member.id>> \notin alt_dismissed
    /\ SumWeights(ExpectedRules(lastJoin'.guild, lastJoin'.member))
          >= get_server_settings(lastJoin'.guild).threshold

\* C21: every such join leads to exactly one kick attempt if auto_kick is on,
\* otherwise to exactly one ban attempt if auto_ban is on, otherwise to
\* exactly one manual decision request; a manual request accompanies an
\* automatic attempt only when that attempt failed, and a kick and a ban are
\* never both attempted for one join.
C21_DecisionPolicy ==
    [][RiskyJoin =>
          LET s == get_server_settings(lastJoin'.guild) IN
          /\ ~(KickAttempts > 0 /\ BanAttempts > 0)
          /\ IF s.auto_kick THEN KickAttempts = 1 /\ BanAttempts = 0
             ELSE IF s.auto_ban THEN BanAttempts = 1 /\ KickAttempts = 0
             ELSE DecisionRequests = 1 /\ KickAttempts = 0 /\ BanAttempts = 0
          /\ (s.auto_kick \/ s.auto_ban) =>
                (DecisionRequests > 0 => \E i \in DOMAIN NewEnforced : ~NewEnforced[i].ok)]_vars

\* ------------------------------------------------------------------------
\* Stored alt-detection settings
\* ------------------------------------------------------------------------
\* A click on a settings panel that passed preChecks.
PanelStep(op) == lastOp'.op = op /\ ~preChecks(lastOp'.arg) /\ panels' # panels

\* C22: no stored alt_settings row has auto_kick and auto_ban both on, before
\* and after every step; a click that switches one of them on leaves the
\* other off in the panel's settings, and a save stores the panel's settings
\* as they are.
C22_AutoActionsExclusive ==
    [][/\ \A g \in DOMAIN alt_settings : ~(alt_settings[g].auto_kick /\ alt_settings[g].auto_ban)
       /\ \A g \in DOMAIN alt_settings' :
              ~(alt_settings'[g].auto_kick /\ alt_settings'[g].auto_ban)
       /\ (PanelStep("toggle_auto_kick") /\ panels'[lastOp'.ban].settings.auto_kick)
              => ~panels'[lastOp'.ban].settings.auto_ban
       /\ (PanelStep("toggle_auto_ban") /\ panels'[lastOp'.ban].settings.auto_ban)
              => ~panels'[lastOp'.ban].settings.auto_kick
       /\ lastOp'.op = "save_settings" /\ alt_settings' # alt_settings
              => alt_settings'[lastOp'.guild] = panels[lastOp'.ban].settings
      ]_vars

\* Auto-ban was stored by one panel, then auto-kick was switched on in the
\* other panel and stored: the row has auto_kick on and auto_ban off.
C22_Witness ==
    /\ lastOp.op = "save_settings"
    /\ Len(panels) = 2
    /\ 1 \in DOMAIN alt_settings
    /\ alt_settings[1].auto_kick /\ ~alt_settings[1].auto_ban
    /\ panels[lastOp.ban].settings = alt_settings[1]
    /\ \E q \in DOMAIN panels :
          q # lastOp.ban /\ panels[q].settings.auto_ban /\ panels[q].saving = 0

\* ------------------------------------------------------------------------
\* Manual resolution of an alert, and dismissals
\* ------------------------------------------------------------------------
\* The step just taken applied and logged a Kick, Ban or Dismiss of an alert.
AltResolveStep == lastOp'.op \in {"alt_kicked", "alt_banned", "alt_dismissed"}

C24_ResolveOnce ==
    [][AltResolveStep => lastOp'.ban \notin alt_disabled]_vars

\* ------------------------------------------------------------------------
\* The join window: quick-join signal, recording and sweep
\* ------------------------------------------------------------------------
\* The entries of a guild's window.
Window(g) ==
    IF g \in DOMAIN recent_joins
    THEN {recent_joins[g][i] : i \in DOMAIN recent_joins[g]} ELSE {}

\* The join just scored was marked by the quick-join rule.
MarkedQuickJoin == "quick_join" \in DOMAIN lastJoin'.triggered_rules

\* C25: when a join is scored with the quick-join rule on, the member is
\* marked if and only if the guild's window holds a join of a different user
\* recorded less than 120 s before; a join of another user 90 s before marks,
\* joins of other users 150 s or more before do not, and neither the member's
\* own joins nor the windows of other guilds count.
C25_QuickJoinSignal ==
    [][(/\ JoinStep /\ lastJoin'.evaluated
        /\ get_server_settings(lastJoin'.guild).rules["quick_join"]) =>
          LET g == lastJoin'.guild
              y == lastJoin'.member.id
              others == {e \in Window(g) : e[1] # y}
          IN
          /\ MarkedQuickJoin <=> (\E e \in others : now - e[2] < 120)
          /\ (\E e \in others : now - e[2] = 90) => MarkedQuickJoin
          /\ (\A e \in others : now - e[2] >= 150) => ~MarkedQuickJoin
          /\ others = {} => ~MarkedQuickJoin]_vars

\* User Y joined a guild 90 s after another user and was marked, although Y
\* itself was absent from the window and the other guild's window was empty.
C25_Witness ==
    /\ lastOp.op = "on_member_join"
    /\ "quick_join" \in DOMAIN lastJoin.triggered_rules
    /\ lastJoin.heat_score = 25
    /\ lastJoin.guild \in DOMAIN recent_joins
    /\ DOMAIN recent_joins = {lastJoin.guild}
    /\ Len(recent_joins[lastJoin.guild]) = 2
    /\ recent_joins[lastJoin.guild][1][1] # lastJoin.member.id
    /\ recent_joins[lastJoin.guild][1][2] = now - 90
    /\ recent_joins[lastJoin.guild][2] = <<lastJoin.member.id, now>>

\* C26: every join of a member that is not a bot is appended to the window
\* of its guild, with the present time, whatever the guild's settings and
\* whether or not the member was dismissed.
C26_EveryJoinRecorded ==
    [][(JoinStep /\ ~lastJoin'.member.bot) =>
          LET g == lastJoin'.guild IN
          /\ g \in DOMAIN recent_joins'
          /\ recent_joins'[g] =
                Append(IF g \in DOMAIN recent_joins THEN recent_joins[g] ELSE <<>>,
                       <<lastJoin'.member.id, now>>)]_vars

SweepStep == lastOp'.op = "check_expired_joins"

\* The window of a guild before the step, empty if it has none.
WindowBefore(g) == IF g \in DOMAIN recent_joins THEN recent_joins[g] ELSE <<>>

\* A join that is recorded is appended to what the window of its guild
\* holds, and no window loses an entry by it.
JoinKeepsWindows ==
    (JoinStep /\ lastJoin'.evaluated) =>
        /\ DOMAIN recent_joins' = DOMAIN recent_joins \cup {lastJoin'.guild}
        /\ \A g \in DOMAIN recent_joins' :
              recent_joins'[g] = IF g = lastJoin'.guild
                                 THEN Append(WindowBefore(g), <<lastJoin'.member.id, now>>)
                                 ELSE recent_joins[g]

AutoAccepted(b) == \E e \in enforced : e.ban_id = b /\ e.ok /\ e.by = "auto"

\* C28: when an ingest is accepted automatically by a peer, the origin's
\* integrity is min(r+1, 100) for each peer that did so (100 stays 100) and
\* every other eligible peer without auto-ban that the alert reached holds an
\* open alert for the event; a Dismiss of such an
\* alert by a reviewer who passes the checks appends a Dismissed action record
\* for the event and lowers the origin's integrity by 1 (100 becomes 99).
C28_DismissAfterAutoAccept ==
    [][/\ (/\ IngestStep /\ nextBanId' # nextBanId
           /\ \E e \in enforced' : e.ban_id = nextBanId /\ e.ok /\ e.by = "auto"
           /\ lastOp'.guild \in DOMAIN servers) =>
             LET o == lastOp'.guild
                 r == servers[o].integrity
                 k == Cardinality({e \in enforced' : e.ban_id = nextBanId /\ e.ok /\ e.by = "auto"})
             IN
             /\ servers'[o].integrity = IF r + k <= 100 THEN r + k ELSE 100
             /\ k = 1 => servers'[o].integrity = IF r + 1 <= 100 THEN r + 1 ELSE 100
             /\ \A g \in guilds \cap DOMAIN servers :
                   (/\ g # o /\ ~servers[g].blacklisted /\ servers[g].alert_channel
                    /\ o \notin servers[g].blocked_servers /\ ~servers[g].auto_ban
                    /\ \E n \in notified' : n.guild = g /\ n.ban_id = nextBanId /\ n.kind = "alert" /\ n.ok)
                      => \E v \in views' : v.guild = g /\ v.ban_id = nextBanId /\ ~v.disabled
       /\ (/\ lastOp'.op = "dismiss" /\ MayResolve(lastOp'.arg)
           /\ lastOp'.ban \in DOMAIN bans
           /\ AutoAccepted(lastOp'.ban)
           /\ bans[lastOp'.ban].origin_server_id \in DOMAIN servers) =>
             LET b == lastOp'.ban
                 o == bans[b].origin_server_id
                 r == servers[o].integrity
             IN
             /\ ban_actions' = Append(ban_actions,
                                  [ban_id |-> b, action |-> "Dismissed",
                                   by_user_id |-> lastOp'.arg, timestamp |-> now])
             /\ servers'[o].integrity = IF r >= 1 THEN r - 1 ELSE 0
             /\ r = 100 => servers'[o].integrity = 99
      ]_vars

\* Server 1 (integrity 100) reported a ban, server 2 banned automatically and
\* server 1 stayed at 100; the reviewer of server 3 then dismissed the alert:
\* one Dismissed action record, server 1 at 99.
C28_Witness ==
    /\ lastOp.op = "dismiss" /\ MayResolve(lastOp.arg)
    /\ lastOp.guild = 3 /\ lastOp.origin = 1 /\ lastOp.pre = 100
    /\ \E e \in enforced : e.ban_id = lastOp.ban /\ e.ok /\ e.by = "auto" /\ e.guild = 2
    /\ ban_actions = <<[ban_id |-> lastOp.ban, action |-> "Dismissed",
                        by_user_id |-> lastOp.arg, timestamp |-> now]>>
    /\ 1 \in DOMAIN servers
    /\ servers[1].integrity = 99

\* C30: an Accept or Dismiss of an alert whose event has no row in table bans
\* appends no action record and changes no server row.
C30_ResolveOfUnknownEvent ==
    [][(ResolveStep /\ lastOp'.ban \notin DOMAIN bans) =>
          (ban_actions' = ban_actions /\ servers' = servers /\ bans' = bans)]_vars

\* An alert that reached server n: a message the step delivered to its alert
\* channel, about the event ban_id.
DeliveredAlerts == {n \in notified' \ notified : n.ok}

\* The origin of the event an alert is derived from.
AlertOrigin(n) == bans'[n.ban_id].origin_server_id

\* C29: a server never receives an alert derived from an event whose origin
\* is in its blocked_servers or is blacklisted, neither the ban alerts of the
\* fan-out nor the alert raised when a user with accepted bans joins it.
C29_NoAlertFromBlockedOrBlacklisted ==
    [][\A n \in DeliveredAlerts :
          /\ n.guild \in DOMAIN servers
          /\ AlertOrigin(n) \in DOMAIN servers
          /\ AlertOrigin(n) \notin servers[n.guild].blocked_servers
          /\ ~servers[AlertOrigin(n)].blacklisted]_vars

\* The part of C29 that is about the fan-out.
FanOutRespectsBlocks ==
    [][lastOp'.op = "on_member_ban" =>
          \A n \in DeliveredAlerts :
             /\ AlertOrigin(n) \notin servers[n.guild].blocked_servers
             /\ ~servers[AlertOrigin(n)].blacklisted]_vars

\* The reports of a user that were stored within the duplicate window of
\* each other.
DuplicateEvents(u) ==
    {p \in (DOMAIN bans) \X (DOMAIN bans) :
        /\ p[1] < p[2]
        /\ bans[p[1]].user_id = u /\ bans[p[2]].user_id = u
        /\ bans[p[2]].flagged_at - bans[p[1]].flagged_at < DedupWindow
        /\ bans[p[1]].flagged_at - bans[p[2]].flagged_at < DedupWindow}

\* C31: however the handlers of two reports of one user interleave, at most
\* one event of the user is stored within the 5-minute window.
C31_DedupUnderInterleaving == \A u \in Users : DuplicateEvents(u) = {}

\* The automatic bans a step attempted.
AutoBanAttempts == {e \in enforced' \ enforced : e.by = "auto"}

\* C32: the fan-out attempts an automatic ban only while the integrity
\* stored for the origin is at least 50, also when alerts of the origin are
\* dismissed while its handler runs.
C32_GateAtActionTime ==
    [][(lastOp'.op = "ingest_fanout" /\ AutoBanAttempts # {}) =>
          /\ lastOp'.guild \in DOMAIN servers
          /\ servers[lastOp'.guild].integrity >= AutoBanIntegrity]_vars

\* A report that passed the blacklist and audit tests and was rejected as a
\* duplicate of an event stored in the last 5 minutes.
RejectedDuplicate ==
    /\ lastOp'.op = "on_member_ban"
    /\ ~IgnoredBan(lastOp'.guild, lastOp'.arg)
    /\ nextBanId' = nextBanId
    /\ existing_ban_from_any_server(bans, lastOp'.user, now)

\* The timestamps the rate limiter holds for a server that are still inside
\* its window.
Retained(sb, g) == IF g \in DOMAIN sb THEN Recent(sb[g], now) ELSE <<>>

\* C33: a report rejected as a duplicate leaves the timestamps the rate
\* limiter retains for its origin as they were.
C33_DuplicateKeepsQuota ==
    [][RejectedDuplicate =>
          Retained(server_bans', lastOp'.guild) = Retained(server_bans, lastOp'.guild)]_vars

\* The rows a step added to table alt_actions.
NewAltActions == SubSeq(alt_actions', Len(alt_actions) + 1, Len(alt_actions'))

\* The action logged for a successful automatic kick or ban.
AutoActionName(action) == IF action = "kick" THEN "auto-kicked" ELSE "auto-banned"

\* C34: a join whose automatic kick or ban succeeded is logged as auto-kicked
\* or auto-banned for that server and user and sends no alert with buttons,
\* whether or not the notice could be delivered.
C34_AutoActionLogged ==
    [][JoinStep =>
          \A i \in DOMAIN NewEnforced :
             NewEnforced[i].ok =>
                /\ \E j \in DOMAIN NewAltActions :
                      /\ NewAltActions[j].server_id = NewEnforced[i].guild
                      /\ NewAltActions[j].user_id = NewEnforced[i].user_id
                      /\ NewAltActions[j].action = AutoActionName(NewEnforced[i].action)
                /\ DecisionRequests = 0]_vars

\* on_member_ban ran for a ban that the bot itself carried out in the guild.
OwnBanReported ==
    /\ lastOp'.op = "on_member_ban"
    /\ lastOp'.arg \in OwnBanAudits
    /\ \E e \in enforced : e.ok /\ e.guild = lastOp'.guild /\ e.user_id = lastOp'.user

\* C35: a ban carried out by the bot itself in a peer, automatically or
\* after an Accept, stores no event, sends no alert, bans nobody and leaves
\* the rate limiter's timestamps of that peer alone.
C35_NoCascade ==
    [][OwnBanReported =>
          /\ bans' = bans /\ nextBanId' = nextBanId
          /\ notified' = notified /\ views' = views /\ enforced' = enforced
          /\ servers' = servers
          /\ server_bans' = server_bans]_vars

\* Server 2 banned user 1 automatically and server 3 after an Accept; the
\* member-ban event of server 3 was handled, and still only the reporting
\* server holds a rate-limiter timestamp and only one event is stored.
C35_Witness ==
    /\ lastOp.op = "on_member_ban" /\ lastOp.arg = "bot" /\ lastOp.guild = 3
    /\ \E e \in enforced : e.ok /\ e.guild = 3 /\ e.user_id = lastOp.user /\ e.by = "accept"
    /\ \E e \in enforced : e.ok /\ e.guild = 2 /\ e.by = "auto"
    /\ DOMAIN server_bans = {1}
    /\ DOMAIN bans = {1}

\* A ban without a reason is reported by a server that has a row, is not
\* blacklisted and is within its rate limit, for a user without an event in
\* the last 5 minutes.
ReasonlessReport ==
    /\ lastOp'.op = "on_member_ban"
    /\ lastOp'.arg = "noreason"
    /\ lastOp'.guild \in DOMAIN servers
    /\ ~servers[lastOp'.guild].blacklisted
    /\ can_send_alert(server_bans, lastOp'.guild, now).ok
    /\ ~existing_ban_from_any_server(bans, lastOp'.user, now)

\* C36: such a report stores an event.
C36_ReasonOptional ==
    [][ReasonlessReport => (nextBanId' = nextBanId + 1 /\ nextBanId \in DOMAIN bans')]_vars

\* The servers that have a row before and after the step.
KeptServers == DOMAIN servers \cap DOMAIN servers'

\* The successful automatic bans of a step.
AutoActs == Cardinality({e \in enforced' \ enforced : e.by = "auto" /\ e.ok})

\* C37: while a server keeps its row, its integrity changes only by an
\* Accept (+1), a Dismiss (-1) or the successful automatic bans (+1 each) of
\* an event it originated; setup and dashboard leave it alone.
C37_IntegrityFrame ==
    [][\A g \in KeptServers :
          servers'[g].integrity # servers[g].integrity =>
             /\ lastOp'.origin = g
             /\ \/ /\ lastOp'.op = "accept"
                   /\ servers'[g].integrity = servers[g].integrity + 1
                \/ /\ lastOp'.op = "dismiss"
                   /\ servers'[g].integrity = servers[g].integrity - 1
                \/ /\ lastOp'.op = "on_member_ban"
                   /\ servers'[g].integrity > servers[g].integrity
                   /\ servers'[g].integrity <= servers[g].integrity + AutoActs]_vars

\* C38: a blacklisted server stays blacklisted for as long as it has a row.
C38_BlacklistPermanent ==
    [][\A g \in KeptServers : servers[g].blacklisted => servers'[g].blacklisted]_vars

\* The sum of the weights of all rules but previous_ban: 155.
ScoreCeiling == SumWeights(RuleNames \ {"previous_ban"})

\* C39: the previous_ban rule never triggers, so no join scores more than
\* 155, and a guild whose threshold is 175 or 200 never gets an alert, a kick
\* or ban or an action-log entry from a join.
C39_ScoreCeiling ==
    [][JoinStep =>
          /\ ScoreCeiling = 155
          /\ lastJoin'.heat_score <= ScoreCeiling
          /\ "previous_ban" \notin DOMAIN lastJoin'.triggered_rules
          /\ get_server_settings(lastJoin'.guild).threshold \in {175, 200} => ~Emitted]_vars

\* A join in a guild with threshold 175 triggered every rule but
\* previous_ban, scored 155 and sent nothing.
C39_Witness ==
    /\ lastJoin.evaluated
    /\ lastJoin.heat_score = 155
    /\ DOMAIN lastJoin.triggered_rules = RuleNames \ {"previous_ban"}
    /\ get_server_settings(lastJoin.guild).threshold = 175
    /\ lastJoin.outcome = "below"
    /\ alt_alerts = <<>> /\ alt_enforced = <<>> /\ alt_actions = <<>>

====
